---- MODULE Spec2Model ----
(***************************************************************************)
(* Model of the LAN lobby handler of the Flo client                        *)
(* (crates/client/src/lan/game/lobby.rs): the lobby-phase state machine    *)
(* that answers the game client's join packets, counts the join packets,   *)
(* reports readiness and runs the start countdown; of the control-plane    *)
(* stream to the lobby server (binaries/flo/src/net/lobby.rs): connect()   *)
(* and its worker loop; and of the mDNS publisher of a LAN game            *)
(* (crates/client/src/lan/game/mod.rs); of the game handlers of the        *)
(* controller's gRPC service (crates/controller/src/grpc.rs) and of the    *)
(* MapSha1 conversion (crates/controller/src/map/mod.rs).  Each component  *)
(* has its own specification: Spec (and SpecLobbyFair, the same under a    *)
(* fair scheduler), SpecLobbyStream, SpecLanGame, SpecController and       *)
(* SpecMapSha1.                                                            *)
(*                                                                         *)
(* One step of the model is the code between two suspension points of      *)
(* LobbyHandler::run (an arm of its select! loop, one frame of send_all,   *)
(* one sleep of send_start), or one step of the environment (the node      *)
(* publishes a status on the watch channel, the countdown notifier fires,  *)
(* a second of the countdown passes).  A read or a write of the client     *)
(* stream can fail at every step that performs one.                        *)
(***************************************************************************)
EXTENDS Integers, Sequences, FiniteSets, TLC

(***************************************************************************)
(* Bounds of the model.                                                    *)
(***************************************************************************)
MaxPackets == 3        \* client packets received per handler
MaxReqJoin == 1        \* ReqJoin packets among them
MaxPings == 1          \* ping-timer ticks per handler

(***************************************************************************)
(* Program constants.                                                      *)
(***************************************************************************)
COUNTDOWN_SLEEP_SECS == 3     \* sleep after CountDownStart
NOTIFY_TIMEOUT_SECS == 6      \* ceiling of the wait on the notifier
NO_NOTIFY_SLEEP_SECS == 3     \* second sleep when no notifier is configured

None == "None"

(* Option<NodeGameStatus>, as far as the model publishes it on the watch   *)
(* channel: None, the two statuses that start the game and one of the      *)
(* statuses that do not.                                                   *)
OptStatus == {None, "Waiting", "Loading", "Running"}

(***************************************************************************)
(* Packets the client can send.  `inner` is the protobuf message type of a *)
(* ProtoBufPayload; `ok` is whether the payload decodes.                   *)
(***************************************************************************)
Pkt(type, inner, ok) == [type |-> type, inner |-> inner, ok |-> ok]

ProtoBufMessageTypeId ==
  {"Unknown2", "PlayerProfile", "PlayerSkins", "PlayerUnknown5", "UnknownValue"}

Packets ==
  {Pkt("ReqJoin", "-", TRUE), Pkt("ChatToHost", "-", TRUE),
   Pkt("LeaveReq", "-", TRUE), Pkt("Other", "-", TRUE)}
  \cup {Pkt(t, "-", ok) : t \in {"MapSize", "PongToHost"}, ok \in BOOLEAN}
  \cup {Pkt("ProtoBufPayload", i, TRUE) : i \in ProtoBufMessageTypeId}
  \cup {Pkt("ProtoBufPayload", "-", FALSE)}

(***************************************************************************)
(* Observable events, in the order the handler produces them.  ch is the   *)
(* channel ("client": a frame written to the client stream, "node": a call *)
(* of report_slot_status, "user": a message sent to the outgoing sink), by *)
(* is the operation that produced it.                                      *)
(***************************************************************************)
Ev(ch, t, id, name, by) ==
  [ch |-> ch, t |-> t, id |-> id, name |-> name, by |-> by]

Frame(t, id, name, by) == Ev("client", t, id, name, by)

PlayerNames == <<"p1", "p2", "p3", "p4">>

(* LanSlotInfo: player_infos is the list of slot player ids (the name of   *)
(* a player is PlayerNames[id]); stream_ob_slot is <<>> or <<index>>.      *)
(* The local player is player 1.                                           *)
PlayerInfoChoices == {<<>>, <<1, 2>>}

ObSlotChoices == {<<>>, <<3>>}

(* The handlers on an IPv4 socket, and a smaller family on an IPv6 socket. *)
Infos ==
  [player_infos : PlayerInfoChoices,
   my_slot_player_id : {1},
   stream_ob_slot : ObSlotChoices,
   local_addr_v6 : {FALSE},
   has_node_stream : BOOLEAN,
   has_notify : BOOLEAN]
  \cup
  [player_infos : {<<>>},
   my_slot_player_id : {1},
   stream_ob_slot : ObSlotChoices,
   local_addr_v6 : {TRUE},
   has_node_stream : BOOLEAN,
   has_notify : {FALSE}]

index_to_player_id(i) == i + 1

VARIABLES
  info,          \* LanGameInfo and the handler's optional collaborators
  join_state,    \* JoinPacketRecvState of the current run()
  reported,      \* local `reported` of run()
  starting,      \* LobbyHandler.starting
  pc,            \* where run() is suspended
  result,        \* what run() returned ("none" while it runs)
  pending,       \* frames of send_all not yet written
  events,        \* the session's events so far, in order: the join replies,
                 \* the Joined report, LanGameJoined and the start sequence
  traffic, \* how many echo, chat and ping frames were written to the client
  status_rx,     \* the watch receiver: the latest value and the unseen flag
  notifyPermit,  \* the countdown Notify holds a permit
  clock,         \* seconds since CountDownStart was written
  tFire,         \* clock when the notifier woke the waiting handler, or -1
  woke,          \* how the second wait of send_start ended
  cnt,           \* how many packets, ReqJoins and pings so far, and
                 \* whether the last packet was a LeaveReq (leave = 1)
  stream,        \* the control-plane stream (LobbyStream::connect)
  game,          \* the LAN game and its mDNS publisher (LanGame)
  controller,    \* the controller's gRPC service and its games registry
  map_sha1       \* one conversion of a map checksum (MapSha1)

lobbyVars == <<info, join_state, reported, starting, pc, result, pending,
               events, traffic, status_rx, notifyPermit, clock, tFire, woke,
               cnt>>

ctlVars == <<controller, map_sha1>>

vars == <<lobbyVars, stream, game, ctlVars>>

(***************************************************************************)
(* JoinPacketRecvState                                                     *)
(***************************************************************************)
JoinPacketRecvState_new(initial_game_state, total_players) ==
  [total_players |-> total_players,
   num_profile |-> 0,
   num_skins |-> 0,
   num_unk5 |-> 0,
   status |-> initial_game_state]

is_ready(s) ==
  s.num_profile = s.total_players /\ s.num_skins = 1 /\ s.num_unk5 = 1

should_start_anyStatus(s) ==
  is_ready(s) /\ s.status # None

should_start(s) ==
  is_ready(s) /\ s.status \in {"Loading", "Running"}

total_players_of(i) ==
  Len(i.player_infos) + (IF i.stream_ob_slot # <<>> THEN 1 ELSE 0)

(***************************************************************************)
(* The reply to ReqJoin, as handle_packet builds it.                       *)
(***************************************************************************)
NonLocal(i) ==
  LET notMe(id) == id # i.my_slot_player_id
  IN SelectSeq(i.player_infos, notMe)

ObPlayerIds(i) ==
  IF i.stream_ob_slot # <<>>
  THEN <<index_to_player_id(i.stream_ob_slot[1])>>
  ELSE <<>>

player_info_packets(i) ==
  [k \in 1..Len(NonLocal(i)) |->
     Frame("PlayerInfo", NonLocal(i)[k], PlayerNames[NonLocal(i)[k]], "join")]
  \o [k \in 1..Len(ObPlayerIds(i)) |->
     Frame("PlayerInfo", ObPlayerIds(i)[k], "FLO", "join")]

player_skin_packets(i) ==
  [k \in 1..Len(NonLocal(i)) |->
     Frame("PlayerSkinsMessage", NonLocal(i)[k], "", "join")]
  \o [k \in 1..Len(ObPlayerIds(i)) |->
     Frame("PlayerSkinsMessage", ObPlayerIds(i)[k], "", "join")]

player_profile_packets_nonLocalOnly(i) ==
  [k \in 1..Len(NonLocal(i)) |->
     Frame("PlayerProfileMessage", NonLocal(i)[k],
           PlayerNames[NonLocal(i)[k]], "join")]
  \o [k \in 1..Len(ObPlayerIds(i)) |->
     Frame("PlayerProfileMessage", ObPlayerIds(i)[k], "FLO", "join")]

player_profile_packets(i) ==
  [k \in 1..Len(i.player_infos) |->
     Frame("PlayerProfileMessage", i.player_infos[k],
           PlayerNames[i.player_infos[k]], "join")]
  \o [k \in 1..Len(ObPlayerIds(i)) |->
     Frame("PlayerProfileMessage", ObPlayerIds(i)[k], "FLO", "join")]

replies_obLast(i) ==
  <<Frame("SlotInfoJoin", i.my_slot_player_id, "", "join"),
    Frame("SlotInfo", 0, "", "join")>>
  \o SubSeq(player_info_packets(i), 1, Len(NonLocal(i)))
  \o SubSeq(player_skin_packets(i), 1, Len(NonLocal(i)))
  \o SubSeq(player_profile_packets(i), 1, Len(i.player_infos))
  \o SubSeq(player_info_packets(i), Len(NonLocal(i)) + 1,
            Len(player_info_packets(i)))
  \o SubSeq(player_skin_packets(i), Len(NonLocal(i)) + 1,
            Len(player_skin_packets(i)))
  \o SubSeq(player_profile_packets(i), Len(i.player_infos) + 1,
            Len(player_profile_packets(i)))
  \o <<Frame("MapCheck", 0, "", "join")>>

replies(i) ==
  <<Frame("SlotInfoJoin", i.my_slot_player_id, "", "join"),
    Frame("SlotInfo", 0, "", "join")>>
  \o player_info_packets(i)
  \o player_skin_packets(i)
  \o player_profile_packets(i)
  \o <<Frame("MapCheck", 0, "", "join")>>

(* In the specification of one component the other components do not      *)
(* exist.                                                                  *)
NoStream == [pc |-> "absent"]

NoGame == [pc |-> "absent"]

NoController == [pc |-> "absent"]

NoMapSha1 == [pc |-> "absent"]

(***************************************************************************)
(* Init: the state after LobbyHandler::new and the first lines of run().   *)
(***************************************************************************)
Init ==
  /\ info \in Infos
  /\ status_rx \in [val : OptStatus, changed : {FALSE}]
  /\ join_state = JoinPacketRecvState_new(status_rx.val, total_players_of(info))
  /\ reported = FALSE
  /\ starting = FALSE
  /\ pc = "select"
  /\ result = "none"
  /\ pending = <<>>
  /\ events = <<>>
  /\ traffic = [echo_profile |-> 0, echo_skins |-> 0, echo_unk5 |-> 0,
                chat |-> 0, ping |-> 0]
  /\ notifyPermit = FALSE
  /\ clock = 0
  /\ tFire = -1
  /\ woke = "none"
  /\ cnt = [pkts |-> 0, joins |-> 0, leave |-> 0, pings |-> 0]
  /\ stream = NoStream
  /\ game = NoGame
  /\ controller = NoController
  /\ map_sha1 = NoMapSha1

(***************************************************************************)
(* run() returns r; ev are the events produced so far.                     *)
(***************************************************************************)
Return(r, js, ev) ==
  /\ pc' = "returned"
  /\ result' = r
  /\ join_state' = js
  /\ events' = ev

(* run() goes back to its select! *)
Continue(js, ev) ==
  /\ pc' = "select"
  /\ result' = result
  /\ join_state' = js
  /\ events' = ev

(***************************************************************************)
(* send_start up to its first suspension: the `starting` guard.            *)
(***************************************************************************)
send_start(js, ev) ==
  IF starting
  THEN /\ Return("Start", js, ev)
       /\ UNCHANGED starting
  ELSE /\ starting' = TRUE
       /\ pc' = "send_slot_info"
       /\ result' = result
       /\ join_state' = js
       /\ events' = ev

(***************************************************************************)
(* run(), lines 96-114: what follows a successful handle_packet.           *)
(***************************************************************************)
JoinedEvents_swapped(up) ==
  (IF up THEN <<Ev("user", "LanGameJoined", 0, "", "report")>> ELSE <<>>)
  \o (IF info.has_node_stream
      THEN <<Ev("node", "Joined", 0, "", "report")>> ELSE <<>>)

JoinedEvents(up) ==
  (IF info.has_node_stream THEN <<Ev("node", "Joined", 0, "", "report")>> ELSE <<>>)
  \o (IF up THEN <<Ev("user", "LanGameJoined", 0, "", "report")>> ELSE <<>>)

after_handle_packet_noFlag(js, ev, up) ==
  IF is_ready(js)
  THEN LET ev2 == IF reported THEN ev ELSE ev \o JoinedEvents(up)
       IN /\ reported' = reported
          /\ IF should_start(js)
             THEN send_start(js, ev2)
             ELSE Continue(js, ev2) /\ UNCHANGED starting
  ELSE /\ Continue(js, ev)
       /\ UNCHANGED <<reported, starting>>

(* up: weak_outgoing_tx is set and its upgrade() succeeds. *)
after_handle_packet(js, ev, up) ==
  IF is_ready(js)
  THEN LET ev2 == IF reported THEN ev ELSE ev \o JoinedEvents(up)
       IN /\ reported' = TRUE
          /\ IF should_start(js)
             THEN send_start(js, ev2)
             ELSE Continue(js, ev2) /\ UNCHANGED starting
  ELSE /\ Continue(js, ev)
       /\ UNCHANGED <<reported, starting>>

(***************************************************************************)
(* handle_packet for every packet type but ReqJoin: the error it returns   *)
(* ("ok" if none), the join state it leaves and the frame it sends         *)
(* ("none", or the traffic counter of the frame).                          *)
(***************************************************************************)
handle_packet_ignoresOther(p, js) ==
  LET done(e, s, out) == [err |-> e, js |-> s, out |-> out]
  IN CASE p.type \in {"MapSize", "PongToHost"} ->
            IF p.ok THEN done("ok", js, "none") ELSE done("Err_Decode", js, "none")
       [] p.type = "ChatToHost" -> done("ok", js, "chat")
       [] p.type = "ProtoBufPayload" ->
            IF ~p.ok THEN done("Err_Decode", js, "none")
            ELSE CASE p.inner = "PlayerProfile" ->
                        done("ok", [js EXCEPT !.num_profile = @ + 1], "echo_profile")
                   [] p.inner = "PlayerSkins" ->
                        done("ok", [js EXCEPT !.num_skins = @ + 1], "echo_skins")
                   [] p.inner = "PlayerUnknown5" ->
                        done("ok", [js EXCEPT !.num_unk5 = @ + 1], "echo_unk5")
                   [] OTHER -> done("ok", js, "none")
       [] OTHER -> done("ok", js, "none")

handle_packet_unk5CountsSkins(p, js) ==
  LET done(e, s, out) == [err |-> e, js |-> s, out |-> out]
  IN CASE p.type \in {"MapSize", "PongToHost"} ->
            IF p.ok THEN done("ok", js, "none") ELSE done("Err_Decode", js, "none")
       [] p.type = "ChatToHost" -> done("ok", js, "chat")
       [] p.type = "ProtoBufPayload" ->
            IF ~p.ok THEN done("Err_Decode", js, "none")
            ELSE CASE p.inner = "PlayerProfile" ->
                        done("ok", [js EXCEPT !.num_profile = @ + 1], "echo_profile")
                   [] p.inner = "PlayerSkins" ->
                        done("ok", [js EXCEPT !.num_skins = @ + 1], "echo_skins")
                   [] p.inner = "PlayerUnknown5" ->
                        done("ok", [js EXCEPT !.num_skins = @ + 1], "echo_unk5")
                   [] OTHER -> done("ok", js, "none")
       [] p.type = "LeaveReq" -> done("ok", js, "none")
       [] OTHER -> done("Err_UnexpectedW3GSPacket", js, "none")

handle_packet(p, js) ==
  LET done(e, s, out) == [err |-> e, js |-> s, out |-> out]
  IN CASE p.type \in {"MapSize", "PongToHost"} ->
            IF p.ok THEN done("ok", js, "none") ELSE done("Err_Decode", js, "none")
       [] p.type = "ChatToHost" -> done("ok", js, "chat")
       [] p.type = "ProtoBufPayload" ->
            IF ~p.ok THEN done("Err_Decode", js, "none")
            ELSE CASE p.inner = "PlayerProfile" ->
                        done("ok", [js EXCEPT !.num_profile = @ + 1], "echo_profile")
                   [] p.inner = "PlayerSkins" ->
                        done("ok", [js EXCEPT !.num_skins = @ + 1], "echo_skins")
                   [] p.inner = "PlayerUnknown5" ->
                        done("ok", [js EXCEPT !.num_unk5 = @ + 1], "echo_unk5")
                   [] OTHER -> done("ok", js, "none")
       [] p.type = "LeaveReq" -> done("ok", js, "none")
       [] OTHER -> done("Err_UnexpectedW3GSPacket", js, "none")

(***************************************************************************)
(* run(), the stream.recv() arm of the select!.  brk says that the write   *)
(* the step performs fails, up that the outgoing sink can be reached when  *)
(* the step reports readiness.                                             *)
(***************************************************************************)
RecvLeaveReq_returnsLeave ==
  /\ pc = "select"
  /\ cnt.pkts < MaxPackets
  /\ cnt' = [cnt EXCEPT !.pkts = @ + 1, !.leave = 1]
  /\ Return("Leave", join_state, events)
  /\ UNCHANGED <<info, reported, starting, pending, traffic, status_rx,
                 notifyPermit, clock, tFire, woke>>
  /\ UNCHANGED <<stream, game, ctlVars>>

(* LeaveReq: a warning, and the loop goes on to its next iteration. *)
RecvLeaveReq ==
  /\ pc = "select"
  /\ cnt.pkts < MaxPackets
  /\ cnt' = [cnt EXCEPT !.pkts = @ + 1, !.leave = 1]
  /\ UNCHANGED <<info, join_state, reported, starting, pc, result, pending,
                 events, traffic, status_rx, notifyPermit, clock, tFire, woke>>
  /\ UNCHANGED <<stream, game, ctlVars>>

RecvReqJoin_noAddrCheck ==
  /\ pc = "select"
  /\ cnt.pkts < MaxPackets
  /\ cnt.joins < MaxReqJoin
  /\ cnt' = [cnt EXCEPT !.pkts = @ + 1, !.joins = @ + 1, !.leave = 0]
  /\ pc' = "send_all"
  /\ pending' = replies(info)
  /\ UNCHANGED <<result, join_state, events>>
  /\ UNCHANGED <<info, reported, starting, traffic, status_rx, notifyPermit,
                 clock, tFire, woke>>
  /\ UNCHANGED <<stream, game, ctlVars>>

RecvReqJoin ==
  /\ pc = "select"
  /\ cnt.pkts < MaxPackets
  /\ cnt.joins < MaxReqJoin
  /\ cnt' = [cnt EXCEPT !.pkts = @ + 1, !.joins = @ + 1, !.leave = 0]
  /\ IF info.local_addr_v6
     THEN /\ Return("Err_Ipv6NotSupported", join_state, events)
          /\ pending' = pending
     ELSE /\ pc' = "send_all"
          /\ pending' = replies(info)
          /\ UNCHANGED <<result, join_state, events>>
  /\ UNCHANGED <<info, reported, starting, traffic, status_rx, notifyPermit,
                 clock, tFire, woke>>
  /\ UNCHANGED <<stream, game, ctlVars>>

(* stream.send_all(replies), one frame per step; the code after            *)
(* handle_packet runs when the last frame is written.                      *)
SendAllFrame(brk, up) ==
  /\ pc = "send_all"
  /\ up => ~brk /\ Len(pending) = 1 /\ ~reported /\ is_ready(join_state)
  /\ IF brk
     THEN /\ Return("Err_Io", join_state, events)
          /\ pending' = <<>>
          /\ UNCHANGED <<reported, starting>>
     ELSE /\ pending' = Tail(pending)
          /\ IF Len(pending) > 1
             THEN /\ events' = Append(events, Head(pending))
                  /\ UNCHANGED <<pc, result, join_state, reported, starting>>
             ELSE after_handle_packet(join_state, Append(events, Head(pending)), up)
  /\ UNCHANGED <<info, traffic, status_rx, notifyPermit, clock, tFire, woke,
                 cnt>>
  /\ UNCHANGED <<stream, game, ctlVars>>

RecvPacket(p, brk, up) ==
  /\ pc = "select"
  /\ cnt.pkts < MaxPackets
  /\ p.type \notin {"ReqJoin", "LeaveReq"}
  /\ cnt' = [cnt EXCEPT !.pkts = @ + 1, !.leave = 0]
  /\ LET r == handle_packet(p, join_state)
     IN /\ brk => r.err = "ok" /\ r.out # "none"
        /\ up => r.err = "ok" /\ ~brk /\ ~reported /\ is_ready(r.js)
        /\ IF r.err # "ok"
           THEN /\ Return(r.err, r.js, events)
                /\ UNCHANGED <<reported, starting, traffic>>
           ELSE IF brk
           THEN /\ Return("Err_Io", r.js, events)
                /\ UNCHANGED <<reported, starting, traffic>>
           ELSE /\ traffic' = IF r.out = "none" THEN traffic
                              ELSE [traffic EXCEPT ![r.out] = @ + 1]
                /\ after_handle_packet(r.js, events, up)
  /\ UNCHANGED <<info, pending, status_rx, notifyPermit, clock, tFire, woke>>
  /\ UNCHANGED <<stream, game, ctlVars>>

(* stream.recv() fails, or returns None because the client closed.         *)
RecvError ==
  /\ pc = "select"
  /\ Return("Err_Io", join_state, events)
  /\ UNCHANGED <<info, reported, starting, pending, traffic, status_rx,
                 notifyPermit, clock, tFire, woke, cnt>>
  /\ UNCHANGED <<stream, game, ctlVars>>

RecvClosed ==
  /\ pc = "select"
  /\ Return("Err_StreamClosed", join_state, events)
  /\ UNCHANGED <<info, reported, starting, pending, traffic, status_rx,
                 notifyPermit, clock, tFire, woke, cnt>>
  /\ UNCHANGED <<stream, game, ctlVars>>

(***************************************************************************)
(* run(), the ping_interval.tick() arm.                                    *)
(***************************************************************************)
PingTick_duringSendAll(brk) ==
  /\ pc \in {"select", "send_all"}
  /\ cnt.pings < MaxPings
  /\ cnt' = [cnt EXCEPT !.pings = @ + 1]
  /\ IF brk
     THEN Return("Err_Io", join_state, events) /\ UNCHANGED traffic
     ELSE /\ traffic' = [traffic EXCEPT !.ping = @ + 1]
          /\ UNCHANGED <<pc, result, join_state, events>>
  /\ UNCHANGED <<info, reported, starting, pending, status_rx, notifyPermit,
                 clock, tFire, woke>>
  /\ UNCHANGED <<stream, game, ctlVars>>

PingTick_duringCountdown(brk) ==
  /\ pc \in {"select", "sleep", "wait_notify", "sleep_more"}
  /\ cnt.pings < MaxPings
  /\ cnt' = [cnt EXCEPT !.pings = @ + 1]
  /\ IF brk
     THEN Return("Err_Io", join_state, events) /\ UNCHANGED traffic
     ELSE /\ traffic' = [traffic EXCEPT !.ping = @ + 1]
          /\ UNCHANGED <<pc, result, join_state, events>>
  /\ UNCHANGED <<info, reported, starting, pending, status_rx, notifyPermit,
                 clock, tFire, woke>>
  /\ UNCHANGED <<stream, game, ctlVars>>

PingTick(brk) ==
  /\ pc = "select"
  /\ cnt.pings < MaxPings
  /\ cnt' = [cnt EXCEPT !.pings = @ + 1]
  /\ IF brk
     THEN Return("Err_Io", join_state, events) /\ UNCHANGED traffic
     ELSE /\ Continue(join_state, events)
          /\ traffic' = [traffic EXCEPT !.ping = @ + 1]
  /\ UNCHANGED <<info, reported, starting, pending, status_rx, notifyPermit,
                 clock, tFire, woke>>
  /\ UNCHANGED <<stream, game, ctlVars>>

(***************************************************************************)
(* run(), the status_rx.changed() arm.                                     *)
(***************************************************************************)
StatusChanged_recordsNone ==
  /\ pc = "select"
  /\ status_rx.changed
  /\ status_rx' = [status_rx EXCEPT !.changed = FALSE]
  /\ LET js == [join_state EXCEPT !.status = status_rx.val]
     IN IF should_start(js)
        THEN send_start(js, events)
        ELSE Continue(js, events) /\ UNCHANGED starting
  /\ UNCHANGED <<info, reported, pending, traffic, notifyPermit, clock, tFire,
                 woke, cnt>>
  /\ UNCHANGED <<stream, game, ctlVars>>

StatusChanged ==
  /\ pc = "select"
  /\ status_rx.changed
  /\ status_rx' = [status_rx EXCEPT !.changed = FALSE]
  /\ IF status_rx.val # None
     THEN LET js == [join_state EXCEPT !.status = status_rx.val]
          IN IF should_start(js)
             THEN send_start(js, events)
             ELSE Continue(js, events) /\ UNCHANGED starting
     ELSE Continue(join_state, events) /\ UNCHANGED starting
  /\ UNCHANGED <<info, reported, pending, traffic, notifyPermit, clock, tFire,
                 woke, cnt>>
  /\ UNCHANGED <<stream, game, ctlVars>>

(* The sender of the watch channel was dropped and every value it sent has *)
(* been seen: changed() returns an error.                                  *)
StatusTxDropped ==
  /\ pc = "select"
  /\ ~status_rx.changed
  /\ Return("Err_TaskCancelled", join_state, events)
  /\ UNCHANGED <<info, reported, starting, pending, traffic, status_rx,
                 notifyPermit, clock, tFire, woke, cnt>>
  /\ UNCHANGED <<stream, game, ctlVars>>

(***************************************************************************)
(* send_start after the guard: SlotInfo, CountDownStart, the 3 second      *)
(* sleep, the wait on the notifier (at most 6 seconds) or the second       *)
(* sleep, CountDownEnd.                                                    *)
(***************************************************************************)
SendSlotInfo(brk) ==
  /\ pc = "send_slot_info"
  /\ IF brk
     THEN Return("Err_Io", join_state, events)
     ELSE /\ pc' = "send_countdown_start"
          /\ events' = Append(events, Frame("SlotInfo", 0, "", "start"))
          /\ UNCHANGED <<result, join_state>>
  /\ UNCHANGED <<info, reported, starting, pending, traffic, status_rx,
                 notifyPermit, clock, tFire, woke, cnt>>
  /\ UNCHANGED <<stream, game, ctlVars>>

SendCountDownStart_twice(brk) ==
  /\ pc = "send_countdown_start"
  /\ IF brk
     THEN Return("Err_Io", join_state, events) /\ UNCHANGED clock
     ELSE /\ pc' = "sleep"
          /\ clock' = 0
          /\ events' = events \o <<Frame("CountDownStart", 0, "", "start"),
                                   Frame("CountDownStart", 0, "", "start")>>
          /\ UNCHANGED <<result, join_state>>
  /\ UNCHANGED <<info, reported, starting, pending, traffic, status_rx,
                 notifyPermit, tFire, woke, cnt>>
  /\ UNCHANGED <<stream, game, ctlVars>>

SendCountDownStart(brk) ==
  /\ pc = "send_countdown_start"
  /\ IF brk
     THEN Return("Err_Io", join_state, events) /\ UNCHANGED clock
     ELSE /\ pc' = "sleep"
          /\ clock' = 0
          /\ events' = Append(events, Frame("CountDownStart", 0, "", "start"))
          /\ UNCHANGED <<result, join_state>>
  /\ UNCHANGED <<info, reported, starting, pending, traffic, status_rx,
                 notifyPermit, tFire, woke, cnt>>
  /\ UNCHANGED <<stream, game, ctlVars>>

Deadline_noFirstSleep ==
  CASE pc = "sleep" -> 0
    [] pc = "wait_notify" -> COUNTDOWN_SLEEP_SECS + NOTIFY_TIMEOUT_SECS
    [] pc = "sleep_more" -> COUNTDOWN_SLEEP_SECS + NO_NOTIFY_SLEEP_SECS
    [] OTHER -> 0

Deadline ==
  CASE pc = "sleep" -> COUNTDOWN_SLEEP_SECS
    [] pc = "wait_notify" -> COUNTDOWN_SLEEP_SECS + NOTIFY_TIMEOUT_SECS
    [] pc = "sleep_more" -> COUNTDOWN_SLEEP_SECS + NO_NOTIFY_SLEEP_SECS
    [] OTHER -> 0

(* One second passes while send_start is suspended; a task that can run    *)
(* (its deadline is reached, or it was notified) runs first.               *)
Tick ==
  /\ pc \in {"sleep", "wait_notify", "sleep_more"}
  /\ clock < Deadline
  /\ ~(pc = "wait_notify" /\ notifyPermit)
  /\ clock' = clock + 1
  /\ UNCHANGED <<info, join_state, reported, starting, pc, result, pending,
                 events, traffic, status_rx, notifyPermit, tFire, woke, cnt>>
  /\ UNCHANGED <<stream, game, ctlVars>>

SleepDone ==
  /\ pc = "sleep"
  /\ clock = Deadline
  /\ pc' = IF info.has_notify THEN "wait_notify" ELSE "sleep_more"
  /\ tFire' = IF info.has_notify /\ notifyPermit THEN clock ELSE tFire
  /\ UNCHANGED <<info, join_state, reported, starting, result, pending, events,
                 traffic, status_rx, notifyPermit, clock, woke, cnt>>
  /\ UNCHANGED <<stream, game, ctlVars>>

SendCountDownEnd(how, brk) ==
  /\ woke' = how
  /\ IF brk
     THEN Return("Err_Io", join_state, events)
     ELSE Return("Start", join_state,
                 Append(events, Frame("CountDownEnd", 0, "", "start")))
  /\ UNCHANGED <<info, reported, starting, pending, traffic, status_rx, clock,
                 tFire, cnt>>
  /\ UNCHANGED <<stream, game, ctlVars>>

Notified(brk) ==
  /\ pc = "wait_notify"
  /\ notifyPermit
  /\ notifyPermit' = FALSE
  /\ SendCountDownEnd("notified", brk)

NotifyTimeout(brk) ==
  /\ pc = "wait_notify"
  /\ clock = Deadline
  /\ UNCHANGED notifyPermit
  /\ SendCountDownEnd("timeout", brk)

SleepMoreDone(brk) ==
  /\ pc = "sleep_more"
  /\ clock = Deadline
  /\ UNCHANGED notifyPermit
  /\ SendCountDownEnd("slept", brk)

(***************************************************************************)
(* The environment of the handler.                                         *)
(***************************************************************************)
(* The node side publishes a status (or None) on the watch channel.        *)
NodeSetStatus(s) ==
  /\ pc # "returned"
  /\ status_rx' = [val |-> s, changed |-> TRUE]
  /\ UNCHANGED <<info, join_state, reported, starting, pc, result, pending,
                 events, traffic, notifyPermit, clock, tFire, woke, cnt>>
  /\ UNCHANGED <<stream, game, ctlVars>>

(* The countdown notifier fires: Notify keeps one permit until a waiter    *)
(* consumes it.  A permit stored before send_start is the same to the      *)
(* handler as one stored while it sends SlotInfo, so the model fires the   *)
(* notifier from there on.                                                 *)
NotifyFire ==
  /\ pc # "returned"
  /\ starting
  /\ info.has_notify
  /\ ~notifyPermit
  /\ notifyPermit' = TRUE
  /\ tFire' = IF pc = "wait_notify" THEN clock ELSE tFire
  /\ UNCHANGED <<info, join_state, reported, starting, pc, result, pending,
                 events, traffic, status_rx, clock, woke, cnt>>
  /\ UNCHANGED <<stream, game, ctlVars>>

Next ==
  \/ RecvLeaveReq
  \/ RecvReqJoin
  \/ \E brk, up \in BOOLEAN : SendAllFrame(brk, up)
  \/ \E p \in Packets, brk, up \in BOOLEAN : RecvPacket(p, brk, up)
  \/ RecvError
  \/ RecvClosed
  \/ \E brk \in BOOLEAN : PingTick(brk)
  \/ StatusChanged
  \/ StatusTxDropped
  \/ \E brk \in BOOLEAN : SendSlotInfo(brk)
  \/ \E brk \in BOOLEAN : SendCountDownStart(brk)
  \/ Tick
  \/ SleepDone
  \/ \E brk \in BOOLEAN : Notified(brk)
  \/ \E brk \in BOOLEAN : NotifyTimeout(brk)
  \/ \E brk \in BOOLEAN : SleepMoreDone(brk)
  \/ \E s \in OptStatus : NodeSetStatus(s)
  \/ NotifyFire

Spec == Init /\ [][Next]_vars

(***************************************************************************)
(* Reading the event log.                                                  *)
(***************************************************************************)
Positions(ch, t, by) ==
  {k \in DOMAIN events :
     events[k].ch = ch /\ events[k].t = t /\ events[k].by = by}

Count(ch, t, by) == Cardinality(Positions(ch, t, by))

CountDownStarts == Count("client", "CountDownStart", "start")

CountDownEnds == Count("client", "CountDownEnd", "start")

JoinedReports == Count("node", "Joined", "report")

LanGameJoineds == Count("user", "LanGameJoined", "report")

(***************************************************************************)
(* C1: in every reachable state of a lobby session the join counters       *)
(* satisfy num_profile <= total_players, num_skins <= 1 and num_unk5 <= 1. *)
(* handle_packet increments the counters without a bound, so a second      *)
(* PlayerSkins packet refutes it.                                          *)
(***************************************************************************)
C1_CountersBounded ==
  /\ join_state.num_profile <= join_state.total_players
  /\ join_state.num_skins <= 1
  /\ join_state.num_unk5 <= 1

(***************************************************************************)
(* C2: CountDownStart is sent and Start is returned only in a state where  *)
(* all join packets were counted (num_profile = total_players, num_skins = *)
(* 1, num_unk5 = 1) and the recorded status is Loading or Running: from    *)
(* the moment send_start is entered, through the countdown and after       *)
(* run() returned Start.  A Loading or Running status recorded before the  *)
(* join packets are complete does not start the game.                      *)
(***************************************************************************)
C2_StartOnlyWhenShouldStart ==
  (starting \/ CountDownStarts > 0 \/ result = "Start") =>
    /\ join_state.num_profile = join_state.total_players
    /\ join_state.num_skins = 1
    /\ join_state.num_unk5 = 1
    /\ join_state.status \in {"Loading", "Running"}

(* The game started on a status change that came after the join packets.   *)
C2_Witness ==
  /\ result = "Start"
  /\ CountDownStarts = 1
  /\ join_state.status = "Running"
  /\ join_state.total_players = 1
  /\ ~status_rx.changed

C4_JoinedOnce ==
  /\ JoinedReports <= 1
  /\ LanGameJoineds <= 1
  /\ (JoinedReports + LanGameJoineds > 0) => reported
  /\ reported =>
       /\ info.has_node_stream => JoinedReports = 1
       /\ join_state.num_profile >= join_state.total_players
       /\ join_state.num_skins >= 1
       /\ join_state.num_unk5 >= 1
  /\ (pc = "select" /\ join_state.num_profile = join_state.total_players
        /\ join_state.num_skins = 1 /\ join_state.num_unk5 = 1) => reported

(* Readiness was reported and a later packet (a chat) kept it.             *)
C4_Witness ==
  /\ pc = "select"
  /\ JoinedReports = 1
  /\ LanGameJoineds = 1
  /\ traffic.chat = 1
  /\ join_state.num_skins = 1
  /\ join_state.num_unk5 = 1
  /\ join_state.total_players = 0

(***************************************************************************)
(* C5: the Joined report, LanGameJoined, the SlotInfo of the start         *)
(* sequence, CountDownStart and CountDownEnd occur in this order, each at  *)
(* most once; CountDownEnd only after CountDownStart, CountDownStart only  *)
(* after that SlotInfo, the SlotInfo only after readiness was reported;    *)
(* and when run() returns Start, CountDownEnd is the last event.           *)
(***************************************************************************)
C5_Rank(e) ==
  CASE e.t = "Joined" -> 1
    [] e.t = "LanGameJoined" -> 2
    [] e.t = "SlotInfo" -> 3
    [] e.t = "CountDownStart" -> 4
    [] e.t = "CountDownEnd" -> 5
    [] OTHER -> 0

C5_EventOrder ==
  LET isMilestone(e) == e.by \in {"report", "start"}
      M == SelectSeq(events, isMilestone)
      has(t) == \E k \in DOMAIN M : M[k].t = t
  IN /\ \A i, j \in DOMAIN M : i < j => C5_Rank(M[i]) < C5_Rank(M[j])
     /\ has("CountDownEnd") => has("CountDownStart")
     /\ has("CountDownStart") => has("SlotInfo")
     /\ has("SlotInfo") => reported /\ (info.has_node_stream => has("Joined"))
     /\ result = "Start" =>
          /\ events # <<>>
          /\ events[Len(events)].t = "CountDownEnd"
     /\ has("CountDownEnd") => result = "Start"

C5_Witness ==
  /\ result = "Start"
  /\ JoinedReports = 1
  /\ LanGameJoineds = 1
  /\ CountDownEnds = 1

(***************************************************************************)
(* C6: with sleeps that last exactly their duration, the time between      *)
(* CountDownStart and CountDownEnd is at least 3 seconds; without a        *)
(* notifier it is at most 9 (it is 6); with a notifier that does not fire  *)
(* it is 9; and when the notifier fires it is 3 seconds plus the time the  *)
(* handler waited for it (tFire - 3, zero if it had fired before the wait  *)
(* began), which is at most 6.                                             *)
(***************************************************************************)
C6_CountdownTiming ==
  CountDownEnds > 0 =>
    /\ clock >= 3
    /\ clock <= 9
    /\ ~info.has_notify => woke = "slept" /\ clock = 6
    /\ (info.has_notify /\ woke = "timeout") => clock = 9
    /\ woke = "notified" =>
         /\ info.has_notify
         /\ tFire \in 3..9
         /\ clock = 3 + (tFire - 3)

(* The notifier fired two seconds into the wait. *)
C6_Witness ==
  /\ result = "Start"
  /\ woke = "notified"
  /\ tFire = 5
  /\ clock = 5

(***************************************************************************)
(* The join replies in the log: a reply starts at a SlotInfoJoin frame and *)
(* runs to the next SlotInfoJoin or the end; it is complete when it ends   *)
(* with MapCheck.                                                          *)
(***************************************************************************)
JoinFrames ==
  LET isJoin(e) == e.by = "join"
  IN SelectSeq(events, isJoin)

ReplyStarts == {k \in DOMAIN JoinFrames : JoinFrames[k].t = "SlotInfoJoin"}

ReplyEnd(k) ==
  IF \E n \in ReplyStarts : n > k
  THEN (CHOOSE n \in ReplyStarts :
          n > k /\ \A m \in ReplyStarts : m > k => n <= m) - 1
  ELSE Len(JoinFrames)

Reply(k) == SubSeq(JoinFrames, k, ReplyEnd(k))

(* The replies that end with MapCheck: Reply(k) of the reply starts k, with *)
(* the join frames selected once.                                          *)
CompleteReplies ==
  LET jf == JoinFrames
      starts == {k \in DOMAIN jf : jf[k].t = "SlotInfoJoin"}
      end(k) == IF \E n \in starts : n > k
                THEN (CHOOSE n \in starts :
                        n > k /\ \A m \in starts : m > k => n <= m) - 1
                ELSE Len(jf)
  IN {SubSeq(jf, k, end(k)) : k \in {n \in starts : jf[end(n)].t = "MapCheck"}}

OfType(c, t) ==
  LET isT(e) == e.t = t
  IN SelectSeq(c, isT)

IdsOf(c) == [k \in DOMAIN c |-> c[k].id]

(***************************************************************************)
(* C7 as claimed: the reply is SlotInfoJoin, SlotInfo, the PlayerInfo of   *)
(* every non-local player, their PlayerSkinsMessage, the                   *)
(* PlayerProfileMessage of every player, then the observer's three frames  *)
(* together, then MapCheck.  The code appends each of the observer's       *)
(* frames to the group of its type, so a reply with an observer refutes    *)
(* it.                                                                     *)
(***************************************************************************)
C7_ObserverFramesTogether ==
  \A c \in CompleteReplies :
    c = <<Frame("SlotInfoJoin", info.my_slot_player_id, "", "join"),
          Frame("SlotInfo", 0, "", "join")>>
        \o [k \in 1..Len(NonLocal(info)) |->
              Frame("PlayerInfo", NonLocal(info)[k],
                    PlayerNames[NonLocal(info)[k]], "join")]
        \o [k \in 1..Len(NonLocal(info)) |->
              Frame("PlayerSkinsMessage", NonLocal(info)[k], "", "join")]
        \o [k \in 1..Len(info.player_infos) |->
              Frame("PlayerProfileMessage", info.player_infos[k],
                    PlayerNames[info.player_infos[k]], "join")]
        \o (IF info.stream_ob_slot = <<>> THEN <<>>
            ELSE <<Frame("PlayerInfo", ObPlayerIds(info)[1], "FLO", "join"),
                   Frame("PlayerSkinsMessage", ObPlayerIds(info)[1], "", "join"),
                   Frame("PlayerProfileMessage", ObPlayerIds(info)[1], "FLO",
                         "join")>>)
        \o <<Frame("MapCheck", 0, "", "join")>>

(***************************************************************************)
(* C7 amended: every complete reply is ordered by frame type               *)
(* (SlotInfoJoin, SlotInfo, PlayerInfo, PlayerSkinsMessage,                *)
(* PlayerProfileMessage, MapCheck); the PlayerInfo and PlayerSkinsMessage  *)
(* groups list the non-local players in player_infos order and then the    *)
(* observer, the PlayerProfileMessage group lists every player in          *)
(* player_infos order and then the observer; the observer's PlayerInfo and *)
(* PlayerProfileMessage are named "FLO".                                   *)
(***************************************************************************)
C7_TypeRank(e) ==
  CASE e.t = "SlotInfoJoin" -> 1
    [] e.t = "SlotInfo" -> 2
    [] e.t = "PlayerInfo" -> 3
    [] e.t = "PlayerSkinsMessage" -> 4
    [] e.t = "PlayerProfileMessage" -> 5
    [] e.t = "MapCheck" -> 6
    [] OTHER -> 0

C7_GroupedByType ==
  \A c \in CompleteReplies :
    LET notMe(id) == id # info.my_slot_player_id
        others == SelectSeq(info.player_infos, notMe)
        ob == ObPlayerIds(info)
        named(e) == e.name = (IF e.id \in {ob[k] : k \in DOMAIN ob}
                              THEN "FLO" ELSE PlayerNames[e.id])
    IN /\ \A i, j \in DOMAIN c : i < j => C7_TypeRank(c[i]) <= C7_TypeRank(c[j])
       /\ c[1].t = "SlotInfoJoin"
       /\ c[2].t = "SlotInfo"
       /\ c[Len(c)].t = "MapCheck"
       /\ Len(OfType(c, "SlotInfoJoin")) = 1
       /\ Len(OfType(c, "SlotInfo")) = 1
       /\ Len(OfType(c, "MapCheck")) = 1
       /\ IdsOf(OfType(c, "PlayerInfo")) = others \o ob
       /\ IdsOf(OfType(c, "PlayerSkinsMessage")) = others \o ob
       /\ IdsOf(OfType(c, "PlayerProfileMessage")) = info.player_infos \o ob
       /\ \A k \in DOMAIN c :
            c[k].t \in {"PlayerInfo", "PlayerProfileMessage"} => named(c[k])

(* A complete reply for a game with a non-local player and an observer.    *)
C7_Witness ==
  /\ CompleteReplies # {}
  /\ info.player_infos = <<1, 2>>
  /\ info.stream_ob_slot # <<>>

(***************************************************************************)
(* C8: on an IPv4 socket the reply to a ReqJoin (the frames written so far *)
(* and those still to write) holds one SlotInfoJoin, one SlotInfo, N + ob  *)
(* PlayerInfo, N + ob PlayerSkinsMessage, N + L + ob PlayerProfileMessage  *)
(* and one MapCheck, where N and L count the non-local and local entries   *)
(* of player_infos and ob is 1 with an observer slot; the observer's       *)
(* frames carry the id stream_ob_slot + 1 and the name "FLO"; and no step  *)
(* of handling the ReqJoin changes the join counters or the recorded       *)
(* status.                                                                 *)
(***************************************************************************)
C8_CurrentReply ==
  IF pending # <<>> /\ pending[1].t = "SlotInfoJoin"
  THEN pending
  ELSE Reply(CHOOSE k \in ReplyStarts : \A m \in ReplyStarts : m <= k)
       \o pending

C8_Counts(c) ==
  LET N == Cardinality({k \in DOMAIN info.player_infos :
                          info.player_infos[k] # info.my_slot_player_id})
      L == Cardinality({k \in DOMAIN info.player_infos :
                          info.player_infos[k] = info.my_slot_player_id})
      ob == IF info.stream_ob_slot # <<>> THEN 1 ELSE 0
      obFrames(t) == {k \in DOMAIN c : c[k].t = t
                                       /\ c[k].id = info.stream_ob_slot[1] + 1}
  IN /\ Len(OfType(c, "SlotInfoJoin")) = 1
     /\ Len(OfType(c, "SlotInfo")) = 1
     /\ Len(OfType(c, "PlayerInfo")) = N + ob
     /\ Len(OfType(c, "PlayerSkinsMessage")) = N + ob
     /\ Len(OfType(c, "PlayerProfileMessage")) = N + L + ob
     /\ Len(OfType(c, "MapCheck")) = 1
     /\ Len(c) = 3 + 2 * (N + ob) + (N + L + ob)
     /\ ob = 1 =>
          /\ \A t \in {"PlayerInfo", "PlayerSkinsMessage",
                       "PlayerProfileMessage"} : Cardinality(obFrames(t)) = 1
          /\ \A t \in {"PlayerInfo", "PlayerProfileMessage"} :
               \A k \in obFrames(t) : c[k].name = "FLO"
     /\ \A k \in DOMAIN c : c[k].name = "FLO" =>
          ob = 1 /\ c[k].id = info.stream_ob_slot[1] + 1

C8_ReplyCounts ==
  /\ [](/\ \A c \in CompleteReplies : C8_Counts(c)
        /\ pc = "send_all" => ~info.local_addr_v6 /\ C8_Counts(C8_CurrentReply))
  /\ [][(pc = "send_all" \/ pc' = "send_all") => join_state' = join_state]_vars

(* A complete reply for a game with the local player, a peer and an        *)
(* observer, sent while the join counters were not all zero.               *)
C8_Witness ==
  /\ CompleteReplies # {}
  /\ info.player_infos = <<1, 2>>
  /\ info.stream_ob_slot # <<>>
  /\ join_state.num_profile = 1
  /\ join_state.status = "Loading"

(***************************************************************************)
(* C9: the join reply is atomic on the client stream.  While a reply is    *)
(* being sent, a step writes no ping, chat or echo frame, and the only     *)
(* frame it writes is the next frame of the reply (what the step that      *)
(* writes the last frame adds after it is not a client frame); in the log, *)
(* everything between a SlotInfoJoin and the end of its reply is a frame   *)
(* of that reply.  Ping ticks and status changes that fall into the reply  *)
(* are handled after it.                                                   *)
(***************************************************************************)
C9_Step ==
  pc = "send_all" =>
    /\ traffic' = traffic
    /\ \/ events' = events
       \/ /\ Len(events') > Len(events)
          /\ SubSeq(events', 1, Len(events)) = events
          /\ events'[Len(events) + 1] = Head(pending)
          /\ \A k \in (Len(events) + 2)..Len(events') :
               Len(pending) = 1 /\ events'[k].ch # "client"

C9_Log ==
  \A i, j \in DOMAIN events :
    (/\ i < j
     /\ events[i].t = "SlotInfoJoin"
     /\ events[j].by = "join"
     /\ \A m \in (i + 1)..j : events[m].t # "SlotInfoJoin")
    => \A m \in i..j : events[m].by = "join"

C9_ReplyAtomic == []C9_Log /\ [][C9_Step]_vars

(* In the middle of a reply, after a ping was written, with a status       *)
(* change the handler has not seen yet.                                    *)
C9_Witness ==
  /\ pc = "send_all"
  /\ Len(pending) = 2
  /\ Len(JoinFrames) > 2
  /\ status_rx.changed
  /\ traffic.ping = 1

(***************************************************************************)
(* C10 as claimed: on an IPv6 socket, once a ReqJoin was received run()    *)
(* has failed with Ipv6NotSupported and the session has no join reply      *)
(* frame, no Joined report, no LanGameJoined and no CountDownStart.  A     *)
(* client that sends its protobuf join packets before ReqJoin refutes the  *)
(* part about the Joined report and LanGameJoined.                         *)
(***************************************************************************)
C10_NothingEmittedOnIpv6 ==
  (info.local_addr_v6 /\ cnt.joins > 0) =>
    /\ result = "Err_Ipv6NotSupported"
    /\ JoinFrames = <<>>
    /\ JoinedReports = 0
    /\ LanGameJoineds = 0
    /\ CountDownStarts = 0

(***************************************************************************)
(* C10 amended: on an IPv6 socket the first ReqJoin makes run() fail with  *)
(* Ipv6NotSupported; no frame of a join reply is ever written; the step    *)
(* that handles the ReqJoin writes no frame, makes no report and changes   *)
(* no counter; and CountDownStart is never sent after it.  The Joined      *)
(* report and LanGameJoined are absent unless the join packets had been    *)
(* completed (and reported) before the ReqJoin arrived.                    *)
(***************************************************************************)
C10_Ipv6RejectsJoin ==
  /\ [](info.local_addr_v6 =>
          /\ JoinFrames = <<>>
          /\ pc # "send_all"
          /\ cnt.joins > 0 =>
               /\ result = "Err_Ipv6NotSupported"
               /\ CountDownStarts = 0
               /\ ~reported => JoinedReports = 0 /\ LanGameJoineds = 0)
  /\ [][(info.local_addr_v6 /\ cnt'.joins > cnt.joins) =>
          /\ pc = "select"
          /\ result' = "Err_Ipv6NotSupported"
          /\ events' = events
          /\ traffic' = traffic
          /\ join_state' = join_state
          /\ reported' = reported]_vars

(* run() failed on the ReqJoin of an IPv6 client that sent it first.       *)
C10_Witness ==
  /\ info.local_addr_v6
  /\ result = "Err_Ipv6NotSupported"
  /\ cnt.pkts = 1
  /\ events = <<>>

(***************************************************************************)
(***************************************************************************)
(* The control-plane stream: LobbyStream::connect, its worker loop and     *)
(* dispatch (binaries/flo/src/net/lobby.rs).                               *)
(*                                                                         *)
(* One step is a step of connect() between two awaits, one iteration of    *)
(* the worker's select! loop (the whole arm, with the sends it awaits), or *)
(* one step of the environment (a holder of a frame sender queues a frame, *)
(* the last frame sender is dropped).  Every read and write of the server  *)
(* stream and every send to the user sink can fail.                        *)
(***************************************************************************)
(***************************************************************************)
MaxFrames == 2         \* frames the worker receives from the server
MaxOutbound == 1       \* frames queued on the outbound channel

CHANNEL_CAPACITY == 5  \* mpsc::channel(5)

(* Option<i32>: <<>> is None and <<x>> is Some(x). *)
NodeIdChoices == {<<>>, <<7>>, <<8>>}

GameIdChoices == {<<>>, <<1>>}

PingChoices == {<<>>, <<30>>}

(* PacketListNodes.nodes, as the list of the node ids. *)
NodeListChoices == {<<>>, <<8>>, <<8, 7>>}

NodeIds == {7, 8}

DisconnectReason == {"Unknown", "Multi", "Maintenance"}

RejectReason == {"Unknown", "ClientVersionTooOld", "InvalidToken"}

(* A value of the wire enum that no variant of the Rust enum matches. *)
InvalidEnum == "Invalid"

(***************************************************************************)
(* Frames of the server.  game is "none" (PacketGameInfo.game is None),    *)
(* "no_node" (the game has no node) or "node" (its node has id node_id);   *)
(* ok is whether the enum fields of the packet unpack.                     *)
(***************************************************************************)
ServerFrame(type) ==
  [type |-> type, payload |-> "", reason |-> "", game |-> "",
   node_id |-> <<>>, game_id |-> <<>>, nodes |-> <<>>, ok |-> TRUE]

PassThroughTypes ==
  {"GamePlayerEnter", "GamePlayerLeave", "GameSlotUpdate",
   "GamePlayerPingMapUpdate", "GamePlayerPingMapSnapshot"}

Frames ==
  {[ServerFrame("Ping") EXCEPT !.payload = b] : b \in {"a", "b"}}
  \cup {[ServerFrame("LobbyDisconnect") EXCEPT
           !.reason = r, !.ok = (r # InvalidEnum)] :
          r \in {"Unknown", "Multi", InvalidEnum}}
  \cup {[ServerFrame("GameInfo") EXCEPT !.game = g] : g \in {"none", "no_node"}}
  \cup {[ServerFrame("GameInfo") EXCEPT !.game = "node", !.node_id = n] :
          n \in NodeIdChoices}
  \cup {ServerFrame(t) : t \in {"GamePlayerEnter", "GamePlayerPingMapSnapshot"}}
  \cup {[ServerFrame("PlayerSessionUpdate") EXCEPT !.game_id = g] :
          g \in GameIdChoices}
  \cup {[ServerFrame("PlayerSessionUpdate") EXCEPT !.ok = FALSE]}
  \cup {[ServerFrame("ListNodes") EXCEPT !.nodes = ns] : ns \in NodeListChoices}
  \cup {[ServerFrame("GameSelectNode") EXCEPT !.node_id = n] :
          n \in NodeIdChoices}
  \cup {ServerFrame("ConnectLobbyAccept")}

(* The replies of the server to ConnectLobby. *)
Replies ==
  {[ServerFrame("ConnectLobbyAccept") EXCEPT !.game_id = g] :
     g \in GameIdChoices}
  \cup {[ServerFrame("ConnectLobbyAccept") EXCEPT !.ok = FALSE]}
  \cup {[ServerFrame("ConnectLobbyReject") EXCEPT
           !.reason = r, !.ok = (r # InvalidEnum)] :
          r \in RejectReason \cup {InvalidEnum}}
  \cup {ServerFrame("ListNodes")}

(* Frames the holders of a frame sender queue for the server. *)
OutboundFrames == {"o1"}

(***************************************************************************)
(* OutgoingMessage, the messages of the user sink.                         *)
(***************************************************************************)
Message(t) ==
  [t |-> t, reason |-> "", message |-> "", game_id |-> <<>>,
   node_id |-> <<>>, nodes |-> <<>>]

Disconnect(reason, message) ==
  [Message("Disconnect") EXCEPT !.reason = reason, !.message = message]

(***************************************************************************)
(* NodeRegistry (net/node.rs): the nodes with their pings, as a function   *)
(* from the registered ids, and the selected node.                         *)
(***************************************************************************)
Range(seq) == {seq[k] : k \in DOMAIN seq}

Registries ==
  {[map |-> <<>>, selected_node_id |-> <<>>],
   [map |-> [i \in {7} |-> <<30>>], selected_node_id |-> <<7>>]}

(* set_selected_node: the selection is written only after the id was found *)
(* in the registry; an unknown id is an error and changes nothing.         *)
set_selected_node_unchecked(reg, id) ==
  [err |-> "ok", reg |-> [reg EXCEPT !.selected_node_id = id]]

set_selected_node(reg, id) ==
  IF id = <<>> \/ id[1] \in DOMAIN reg.map
  THEN [err |-> "ok", reg |-> [reg EXCEPT !.selected_node_id = id]]
  ELSE [err |-> "Err_InvalidSelectedNode", reg |-> reg]

(* update_nodes: the registry is replaced by the nodes of the list; pg are *)
(* the pings the registry holds for them; a selection that is no longer    *)
(* registered is cleared.                                                  *)
update_nodes(reg, ns, pg) ==
  [map |-> [i \in Range(ns) |-> pg[i]],
   selected_node_id |->
     IF reg.selected_node_id # <<>> /\ reg.selected_node_id[1] \in Range(ns)
     THEN reg.selected_node_id
     ELSE <<>>]

get_current_ping(reg, id) ==
  IF id \in DOMAIN reg.map THEN reg.map[id] ELSE <<>>

(***************************************************************************)
(* dispatch, one arm of its match_packet! each: the error it returns ("ok" *)
(* if none), the registry and the current_game_id cell it leaves and the   *)
(* message it hands to send_message.                                       *)
(***************************************************************************)
Dispatched(e, reg, cgi, msg) ==
  [err |-> e, reg |-> reg, cgi |-> cgi, msg |-> msg]

(* match_packet!: a frame whose type id matches no arm is an error. *)
match_packet_unmatched == "Err_UnexpectedPacket"

dispatch_LobbyDisconnect(p, reg, cgi) ==
  IF p.ok
  THEN Dispatched("ok", reg, cgi,
                  Disconnect(p.reason, "Server closed the connection"))
  ELSE Dispatched("Err_Unpack", reg, cgi, Message("-"))

dispatch_GameInfo_keepsWithoutNode(p, reg, cgi) ==
  LET id == IF p.game = "node" THEN p.node_id ELSE <<>>
      r == IF p.game = "node" THEN set_selected_node(reg, id)
           ELSE [err |-> "ok", reg |-> reg]
  IN IF r.err # "ok" THEN Dispatched(r.err, r.reg, cgi, Message("-"))
     ELSE IF p.game = "none"
     THEN Dispatched("Err_MissingField", r.reg, cgi, Message("-"))
     ELSE Dispatched("ok", r.reg, cgi,
                     [Message("CurrentGameInfo") EXCEPT !.node_id = id])

dispatch_GameInfo(p, reg, cgi) ==
  LET id == IF p.game = "node" THEN p.node_id ELSE <<>>
      r == set_selected_node(reg, id)
  IN IF r.err # "ok" THEN Dispatched(r.err, r.reg, cgi, Message("-"))
     ELSE IF p.game = "none"
     THEN Dispatched("Err_MissingField", r.reg, cgi, Message("-"))
     ELSE Dispatched("ok", r.reg, cgi,
                     [Message("CurrentGameInfo") EXCEPT !.node_id = id])

dispatch_PlayerSessionUpdate_keepNode(p, reg, cgi) ==
  IF p.ok
  THEN Dispatched("ok", reg, p.game_id,
                  [Message("PlayerSessionUpdate") EXCEPT !.game_id = p.game_id])
  ELSE Dispatched("Err_Unpack", reg, p.game_id, Message("-"))

dispatch_PlayerSessionUpdate(p, reg, cgi) ==
  LET r == IF p.game_id = <<>> THEN set_selected_node(reg, <<>>)
           ELSE [err |-> "ok", reg |-> reg]
  IN IF r.err # "ok" THEN Dispatched(r.err, r.reg, cgi, Message("-"))
     ELSE IF p.ok
     THEN Dispatched("ok", r.reg, p.game_id,
                     [Message("PlayerSessionUpdate") EXCEPT
                        !.game_id = p.game_id])
     ELSE Dispatched("Err_Unpack", r.reg, p.game_id, Message("-"))

(* The annotated list: one [id, ping] per node of the packet, in order. *)
dispatch_ListNodes_stalePing(p, reg, cgi, pg) ==
  LET reg2 == update_nodes(reg, p.nodes, pg)
      list == [k \in DOMAIN p.nodes |->
                 [id |-> p.nodes[k], ping |-> get_current_ping(reg, p.nodes[k])]]
  IN Dispatched("ok", reg2, cgi, [Message("ListNodes") EXCEPT !.nodes = list])

dispatch_ListNodes(p, reg, cgi, pg) ==
  LET reg2 == update_nodes(reg, p.nodes, pg)
      list == [k \in DOMAIN p.nodes |->
                 [id |-> p.nodes[k], ping |-> get_current_ping(reg2, p.nodes[k])]]
  IN Dispatched("ok", reg2, cgi, [Message("ListNodes") EXCEPT !.nodes = list])

dispatch_GameSelectNode(p, reg, cgi) ==
  LET r == set_selected_node(reg, p.node_id)
  IN IF r.err # "ok" THEN Dispatched(r.err, r.reg, cgi, Message("-"))
     ELSE Dispatched("ok", r.reg, cgi,
                     [Message("GameSelectNode") EXCEPT !.node_id = p.node_id])

dispatch_ignoresUnmatched(p, reg, cgi, pg) ==
  CASE p.type = "LobbyDisconnect" -> dispatch_LobbyDisconnect(p, reg, cgi)
    [] p.type = "GameInfo" -> dispatch_GameInfo(p, reg, cgi)
    [] p.type \in PassThroughTypes -> Dispatched("ok", reg, cgi, Message(p.type))
    [] p.type = "PlayerSessionUpdate" -> dispatch_PlayerSessionUpdate(p, reg, cgi)
    [] p.type = "ListNodes" -> dispatch_ListNodes(p, reg, cgi, pg)
    [] p.type = "GameSelectNode" -> dispatch_GameSelectNode(p, reg, cgi)
    [] OTHER -> Dispatched("ok", reg, cgi, Message("-"))

dispatch(p, reg, cgi, pg) ==
  CASE p.type = "LobbyDisconnect" -> dispatch_LobbyDisconnect(p, reg, cgi)
    [] p.type = "GameInfo" -> dispatch_GameInfo(p, reg, cgi)
    [] p.type \in PassThroughTypes -> Dispatched("ok", reg, cgi, Message(p.type))
    [] p.type = "PlayerSessionUpdate" -> dispatch_PlayerSessionUpdate(p, reg, cgi)
    [] p.type = "ListNodes" -> dispatch_ListNodes(p, reg, cgi, pg)
    [] p.type = "GameSelectNode" -> dispatch_GameSelectNode(p, reg, cgi)
    [] OTHER -> Dispatched(match_packet_unmatched, reg, cgi, Message("-"))

(* send_message: the message is handed to the sink; ok is whether the sink *)
(* took it.                                                                *)
send_message(ws, msg, ok) == Append(ws, [m |-> msg, ok |-> ok])

(* No lobby handler exists. *)
NoLobby ==
  /\ info = [player_infos |-> <<>>, my_slot_player_id |-> 1,
             stream_ob_slot |-> <<>>, local_addr_v6 |-> FALSE,
             has_node_stream |-> FALSE, has_notify |-> FALSE]
  /\ status_rx = [val |-> None, changed |-> FALSE]
  /\ join_state = JoinPacketRecvState_new(None, 0)
  /\ reported = FALSE
  /\ starting = FALSE
  /\ pc = "absent"
  /\ result = "none"
  /\ pending = <<>>
  /\ events = <<>>
  /\ traffic = [echo_profile |-> 0, echo_skins |-> 0, echo_unk5 |-> 0,
                chat |-> 0, ping |-> 0]
  /\ notifyPermit = FALSE
  /\ clock = 0
  /\ tFire = -1
  /\ woke = "none"
  /\ cnt = [pkts |-> 0, joins |-> 0, leave |-> 0, pings |-> 0]

(***************************************************************************)
(* The state before connect() is called.  The node registry exists before  *)
(* the stream and is not empty in every case.                              *)
(***************************************************************************)
InitLobbyStream ==
  /\ stream \in
       [pc : {"connect"}, result : {"none"}, reject : {""},
        worker : {"not_spawned"}, exit : {""}, chan : {"none"},
        frame_r : {<<>>}, cell : {FALSE}, current_game_id : {<<>>},
        nodes : Registries, ws : {<<>>}, server_out : {<<>>},
        dispatched : {0}, n : {[frames |-> 0, out |-> 0]},
        reply : {ServerFrame("-")}, last : {ServerFrame("-")},
        effects : {<<>>}]
  /\ game = NoGame
  /\ controller = NoController
  /\ map_sha1 = NoMapSha1
  /\ NoLobby

(* connect() returns the error e. *)
ConnectFailed(e) ==
  [stream EXCEPT !.pc = "done", !.result = e]

(* connect() has received the reply p: the stream with that on record. *)
Replied(s, p) == [s EXCEPT !.reply = p]

(***************************************************************************)
(* connect(): FloStream::connect, the ConnectLobby packet, the reply.      *)
(***************************************************************************)
ConnectTcp(ok) ==
  /\ stream.pc = "connect"
  /\ stream' = IF ok THEN [stream EXCEPT !.pc = "send_connect"]
               ELSE ConnectFailed("Err_Io")
  /\ UNCHANGED <<lobbyVars, game, ctlVars>>

SendConnectLobby(ok) ==
  /\ stream.pc = "send_connect"
  /\ stream' = IF ok
               THEN [stream EXCEPT
                       !.pc = "recv_reply",
                       !.server_out = Append(@, [t |-> "ConnectLobby",
                                                payload |-> ""])]
               ELSE ConnectFailed("Err_Io")
  /\ UNCHANGED <<lobbyVars, game, ctlVars>>

RecvReplyError ==
  /\ stream.pc = "recv_reply"
  /\ stream' = ConnectFailed("Err_Io")
  /\ UNCHANGED <<lobbyVars, game, ctlVars>>

(* ConnectLobbyReject, or a frame that is neither Accept nor Reject. *)
RecvReject_spawns(p) ==
  /\ stream.pc = "recv_reply"
  /\ p.type # "ConnectLobbyAccept"
  /\ stream' = Replied([stream EXCEPT
                          !.pc = "done",
                          !.result = "Err_ConnectionRequestRejected",
                          !.reject = p.reason,
                          !.chan = "open",
                          !.worker = "running"], p)
  /\ UNCHANGED <<lobbyVars, game, ctlVars>>

RecvReject(p) ==
  /\ stream.pc = "recv_reply"
  /\ p.type # "ConnectLobbyAccept"
  /\ stream' =
       Replied(IF p.type # "ConnectLobbyReject"
               THEN ConnectFailed(match_packet_unmatched)
               ELSE IF ~p.ok THEN ConnectFailed("Err_Unpack")
               ELSE [ConnectFailed("Err_ConnectionRequestRejected") EXCEPT
                       !.reject = p.reason], p)
  /\ UNCHANGED <<lobbyVars, game, ctlVars>>

(* ConnectLobbyAccept: the cell, the channel, the PlayerSession message    *)
(* and, if the sink took it, the worker.                                   *)
RecvAccept_spawnFirst(p, wsOk) ==
  /\ stream.pc = "recv_reply"
  /\ p.type = "ConnectLobbyAccept"
  /\ p.ok
  /\ stream' =
       Replied([stream EXCEPT
                  !.pc = "done", !.result = "Ok", !.cell = TRUE,
                  !.current_game_id = p.game_id, !.chan = "open",
                  !.worker = "running",
                  !.ws = send_message(@, [Message("PlayerSession") EXCEPT
                                            !.game_id = p.game_id], wsOk)], p)
  /\ UNCHANGED <<lobbyVars, game, ctlVars>>

RecvAccept(p, wsOk) ==
  /\ stream.pc = "recv_reply"
  /\ p.type = "ConnectLobbyAccept"
  /\ ~p.ok => wsOk
  /\ stream' =
       Replied(IF ~p.ok THEN ConnectFailed("Err_Unpack")
               ELSE LET ws2 == send_message(stream.ws,
                                            [Message("PlayerSession") EXCEPT
                                               !.game_id = p.game_id], wsOk)
                    IN IF ~wsOk
                       THEN [ConnectFailed("Err_Ws") EXCEPT !.ws = ws2]
                       ELSE [stream EXCEPT
                               !.pc = "done", !.result = "Ok", !.cell = TRUE,
                               !.current_game_id = p.game_id, !.chan = "open",
                               !.worker = "running", !.ws = ws2], p)
  /\ UNCHANGED <<lobbyVars, game, ctlVars>>

(***************************************************************************)
(* The worker loop.                                                        *)
(***************************************************************************)
WorkerExit(s, why) == [s EXCEPT !.worker = "exited", !.exit = why]

ToServer(t, payload) == [t |-> t, payload |-> payload]

(* frame_r.next() yields a frame: stream.send_frame(frame). *)
WorkerSendOutbound(ok) ==
  /\ stream.worker = "running"
  /\ stream.frame_r # <<>>
  /\ LET s == [stream EXCEPT !.frame_r = Tail(@)]
     IN stream' =
          IF ok
          THEN [s EXCEPT !.server_out =
                           Append(@, ToServer("Outbound", Head(stream.frame_r)))]
          ELSE WorkerExit(s, "send_error")
  /\ UNCHANGED <<lobbyVars, game, ctlVars>>

(* frame_r.next() yields None: every sender is dropped and the queue is    *)
(* empty.                                                                  *)
WorkerSenderDropped_disconnects ==
  /\ stream.worker = "running"
  /\ stream.frame_r = <<>>
  /\ stream.chan = "senders_dropped"
  /\ stream' = WorkerExit([stream EXCEPT
                             !.ws = send_message(@, Disconnect("Unknown",
                                                               "send"), TRUE)],
                          "sender_dropped")
  /\ UNCHANGED <<lobbyVars, game, ctlVars>>

WorkerSenderDropped ==
  /\ stream.worker = "running"
  /\ stream.frame_r = <<>>
  /\ stream.chan = "senders_dropped"
  /\ stream' = WorkerExit(stream, "sender_dropped")
  /\ UNCHANGED <<lobbyVars, game, ctlVars>>

(* stream.recv_frame() fails. *)
WorkerRecvError_keepsRunning(wsOk) ==
  /\ stream.worker = "running"
  /\ stream.n.frames < MaxFrames
  /\ stream' = [stream EXCEPT
                  !.n.frames = @ + 1, !.last = ServerFrame("-"),
                  !.ws = send_message(@, Disconnect("Unknown", "recv"), wsOk)]
  /\ UNCHANGED <<lobbyVars, game, ctlVars>>

WorkerRecvError(wsOk) ==
  /\ stream.worker = "running"
  /\ stream' = WorkerExit([stream EXCEPT
                             !.ws = send_message(@, Disconnect("Unknown",
                                                               "recv"), wsOk)],
                          "recv")
  /\ UNCHANGED <<lobbyVars, game, ctlVars>>

(* stream.recv_frame() yields a Ping: the frame goes back as a Pong. *)
WorkerRecvPing_dispatches(p, ok) ==
  /\ stream.worker = "running"
  /\ stream.n.frames < MaxFrames
  /\ p.type = "Ping"
  /\ LET s == [stream EXCEPT !.n.frames = @ + 1, !.last = p,
                             !.dispatched = @ + 1]
     IN stream' =
          IF ok
          THEN [s EXCEPT !.server_out = Append(@, ToServer("Pong", p.payload))]
          ELSE WorkerExit(s, "send_error")
  /\ UNCHANGED <<lobbyVars, game, ctlVars>>

WorkerRecvPing(p, ok) ==
  /\ stream.worker = "running"
  /\ stream.n.frames < MaxFrames
  /\ p.type = "Ping"
  /\ LET s == [stream EXCEPT !.n.frames = @ + 1, !.last = p]
     IN stream' =
          IF ok
          THEN [s EXCEPT !.server_out = Append(@, ToServer("Pong", p.payload))]
          ELSE WorkerExit(s, "send_error")
  /\ UNCHANGED <<lobbyVars, game, ctlVars>>

(* stream.recv_frame() yields another frame: dispatch, and on its error    *)
(* the Disconnect message.  wsOk is whether the sink takes the message of  *)
(* dispatch, wsOk2 whether it takes the Disconnect.                        *)
(***************************************************************************)
(* The effects of one call of dispatch in program order: "nodes" is a      *)
(* write of the node registry (set_selected_node or update_nodes returned  *)
(* Ok), "current_game_id" the write of the cell, "send" the call of        *)
(* send_message; r is what dispatch returns for packet p.                  *)
(***************************************************************************)
dispatch_effects_sendFirst(p, r) ==
  LET regCall == \/ p.type \in {"GameInfo", "GameSelectNode", "ListNodes"}
                 \/ p.type = "PlayerSessionUpdate" /\ p.game_id = <<>>
      regOk == r.err # "Err_InvalidSelectedNode"
  IN (IF r.err = "ok" THEN <<"send">> ELSE <<>>)
     \o (IF regCall /\ regOk THEN <<"nodes">> ELSE <<>>)
     \o (IF p.type = "PlayerSessionUpdate" /\ regOk
         THEN <<"current_game_id">> ELSE <<>>)

dispatch_effects(p, r) ==
  LET regCall == \/ p.type \in {"GameInfo", "GameSelectNode", "ListNodes"}
                 \/ p.type = "PlayerSessionUpdate" /\ p.game_id = <<>>
      regOk == r.err # "Err_InvalidSelectedNode"
  IN (IF regCall /\ regOk THEN <<"nodes">> ELSE <<>>)
     \o (IF p.type = "PlayerSessionUpdate" /\ regOk
         THEN <<"current_game_id">> ELSE <<>>)
     \o (IF r.err = "ok" THEN <<"send">> ELSE <<>>)

WorkerDispatch_sendsTwice(p, pg, wsOk, wsOk2) ==
  /\ stream.worker = "running"
  /\ stream.n.frames < MaxFrames
  /\ p.type # "Ping"
  /\ p.type # "ListNodes" => pg = [i \in NodeIds |-> <<>>]
  /\ LET r == dispatch(p, stream.nodes, stream.current_game_id, pg)
         s == [stream EXCEPT !.n.frames = @ + 1, !.last = p,
                             !.dispatched = @ + 1,
                             !.nodes = r.reg, !.current_game_id = r.cgi,
                             !.effects = dispatch_effects(p, r)]
     IN /\ r.err # "ok" => wsOk
        /\ r.err = "ok" /\ wsOk => wsOk2
        /\ stream' =
             IF r.err = "ok" /\ wsOk
             THEN [s EXCEPT !.ws = send_message(send_message(@, r.msg, TRUE),
                                                r.msg, TRUE)]
             ELSE LET ws1 == IF r.err = "ok"
                             THEN send_message(s.ws, r.msg, FALSE)
                             ELSE s.ws
                  IN WorkerExit([s EXCEPT
                                   !.ws = send_message(ws1,
                                            Disconnect("Unknown", "dispatch"),
                                            wsOk2)],
                                "dispatch")
  /\ UNCHANGED <<lobbyVars, game, ctlVars>>

WorkerDispatch(p, pg, wsOk, wsOk2) ==
  /\ stream.worker = "running"
  /\ stream.n.frames < MaxFrames
  /\ p.type # "Ping"
  /\ p.type # "ListNodes" => pg = [i \in NodeIds |-> <<>>]
  /\ LET r == dispatch(p, stream.nodes, stream.current_game_id, pg)
         s == [stream EXCEPT !.n.frames = @ + 1, !.last = p,
                             !.dispatched = @ + 1,
                             !.nodes = r.reg, !.current_game_id = r.cgi,
                             !.effects = dispatch_effects(p, r)]
     IN /\ r.err # "ok" => wsOk
        /\ r.err = "ok" /\ wsOk => wsOk2
        /\ stream' =
             IF r.err = "ok" /\ wsOk
             THEN [s EXCEPT !.ws = send_message(@, r.msg, TRUE)]
             ELSE LET ws1 == IF r.err = "ok"
                             THEN send_message(s.ws, r.msg, FALSE)
                             ELSE s.ws
                  IN WorkerExit([s EXCEPT
                                   !.ws = send_message(ws1,
                                            Disconnect("Unknown", "dispatch"),
                                            wsOk2)],
                                "dispatch")
  /\ UNCHANGED <<lobbyVars, game, ctlVars>>

(***************************************************************************)
(* The holders of the frame senders.                                       *)
(***************************************************************************)
(* frame_sender.send(frame) *)
SenderPush(f) ==
  /\ stream.worker = "running"
  /\ stream.chan = "open"
  /\ stream.n.out < MaxOutbound
  /\ Len(stream.frame_r) < CHANNEL_CAPACITY
  /\ stream' = [stream EXCEPT !.frame_r = Append(@, f), !.n.out = @ + 1]
  /\ UNCHANGED <<lobbyVars, game, ctlVars>>

(* The LobbyStream and every clone of its sender are dropped. *)
DropSenders ==
  /\ stream.result = "Ok"
  /\ stream.chan = "open"
  /\ stream' = [stream EXCEPT !.chan = "senders_dropped"]
  /\ UNCHANGED <<lobbyVars, game, ctlVars>>

NextLobbyStream ==
  \/ \E ok \in BOOLEAN : ConnectTcp(ok)
  \/ \E ok \in BOOLEAN : SendConnectLobby(ok)
  \/ RecvReplyError
  \/ \E p \in Replies : RecvReject(p)
  \/ \E p \in Replies, wsOk \in BOOLEAN : RecvAccept(p, wsOk)
  \/ \E ok \in BOOLEAN : WorkerSendOutbound(ok)
  \/ WorkerSenderDropped
  \/ \E wsOk \in BOOLEAN : WorkerRecvError(wsOk)
  \/ \E p \in Frames, ok \in BOOLEAN : WorkerRecvPing(p, ok)
  \/ \E p \in Frames, pg \in [NodeIds -> PingChoices], wsOk, wsOk2 \in BOOLEAN :
       WorkerDispatch(p, pg, wsOk, wsOk2)
  \/ \E f \in OutboundFrames : SenderPush(f)
  \/ DropSenders

SpecLobbyStream == InitLobbyStream /\ [][NextLobbyStream]_vars

(***************************************************************************)
(* Reading the control-plane stream.                                       *)
(***************************************************************************)
(* The worker's recv arm handles a frame of type t in this step. *)
RecvStep(t) ==
  /\ stream'.n.frames = stream.n.frames + 1
  /\ stream'.last.type = t

MessagesOfType(ws, t) == {k \in DOMAIN ws : ws[k].m.t = t}

Last(seq) == seq[Len(seq)]

(***************************************************************************)
(* C11: a Ping frame received by the worker is answered with exactly one   *)
(* Pong frame carrying the Ping's payload (nothing is written if the write *)
(* fails, and the worker then exits); the step does not call dispatch,     *)
(* hands nothing to the user sink and changes neither the node registry    *)
(* nor current_game_id.                                                    *)
(***************************************************************************)
C11_PingAnsweredByPong ==
  [][RecvStep("Ping") =>
       /\ stream'.dispatched = stream.dispatched
       /\ stream'.ws = stream.ws
       /\ stream'.nodes = stream.nodes
       /\ stream'.current_game_id = stream.current_game_id
       /\ \/ /\ stream'.server_out =
                  Append(stream.server_out,
                         ToServer("Pong", stream'.last.payload))
             /\ stream'.worker = "running"
          \/ /\ stream'.server_out = stream.server_out
             /\ stream'.worker = "exited"
             /\ stream'.exit = "send_error"]_vars

C11_Witness ==
  /\ stream.worker = "running"
  /\ stream.last.type = "Ping"
  /\ stream.last.payload = "b"
  /\ stream.server_out # <<>>
  /\ Last(stream.server_out) = ToServer("Pong", "b")
  /\ stream.dispatched = 1
  /\ stream.n.frames = 2

(***************************************************************************)
(* C12: dispatching a PlayerSessionUpdate with game_id None leaves         *)
(* selected_node_id None and current_game_id None, whatever the selection  *)
(* was; with game_id Some(g) it leaves current_game_id Some(g) and the     *)
(* selection as it was.  The registry's nodes are not changed.  The user   *)
(* sink is handed exactly one PlayerSessionUpdate message with the game id *)
(* of the packet, and none if the packet's status does not unpack.         *)
(***************************************************************************)
C12_SessionUpdateClearsNode ==
  [][RecvStep("PlayerSessionUpdate") =>
       LET p == stream'.last
           n == Len(stream.ws)
       IN /\ stream'.current_game_id = p.game_id
          /\ stream'.nodes.map = stream.nodes.map
          /\ stream'.nodes.selected_node_id =
               IF p.game_id = <<>> THEN <<>>
               ELSE stream.nodes.selected_node_id
          /\ IF p.ok
             THEN /\ Len(stream'.ws) > n
                  /\ stream'.ws[n + 1].m =
                       [Message("PlayerSessionUpdate") EXCEPT
                          !.game_id = p.game_id]
                  /\ MessagesOfType(stream'.ws, "PlayerSessionUpdate")
                       = MessagesOfType(stream.ws, "PlayerSessionUpdate")
                           \cup {n + 1}
                  /\ stream'.ws[n + 1].ok <=> stream'.worker = "running"
             ELSE MessagesOfType(stream'.ws, "PlayerSessionUpdate")
                    = MessagesOfType(stream.ws, "PlayerSessionUpdate")]_vars

(* GameSelectNode selected node 7, then the session update cleared it. *)
C12_Witness ==
  /\ Len(stream.ws) = 3
  /\ stream.ws[2].m.t = "GameSelectNode"
  /\ stream.ws[2].m.node_id = <<7>>
  /\ stream.ws[3].m.t = "PlayerSessionUpdate"
  /\ stream.ws[3].m.game_id = <<>>
  /\ stream.ws[3].ok
  /\ stream.last.type = "PlayerSessionUpdate"
  /\ stream.nodes.selected_node_id = <<>>
  /\ stream.current_game_id = <<>>
  /\ 7 \in DOMAIN stream.nodes.map

C14_RejectFailsConnect ==
  stream.reply.type = "ConnectLobbyReject" /\ stream.reply.ok =>
    /\ stream.pc = "done"
    /\ stream.result = "Err_ConnectionRequestRejected"
    /\ stream.reject = stream.reply.reason
    /\ stream.worker = "not_spawned"
    /\ stream.chan = "none"
    /\ ~stream.cell
    /\ stream.ws = <<>>
    /\ stream.server_out = <<ToServer("ConnectLobby", "")>>
    /\ stream.dispatched = 0

C14_Witness ==
  /\ stream.reply.type = "ConnectLobbyReject"
  /\ stream.reply.reason = "ClientVersionTooOld"
  /\ stream.result = "Err_ConnectionRequestRejected"
  /\ stream.reject = "ClientVersionTooOld"

(***************************************************************************)
(* C15: once connect() has received ConnectLobbyAccept{session}, the first *)
(* message handed to the user sink is PlayerSession(session) and no later  *)
(* message is a PlayerSession; if the sink took it the worker was spawned, *)
(* connect() returned Ok and, until dispatch first runs, current_game_id   *)
(* is session.game_id; if the sink did not take it connect() failed, no    *)
(* worker was spawned and nothing else was handed to the sink.  A worker   *)
(* runs only after the sink took PlayerSession.                            *)
(***************************************************************************)
C15_AcceptSeedsAndEmitsSession ==
  /\ stream.reply.type = "ConnectLobbyAccept" /\ stream.reply.ok =>
       /\ stream.ws # <<>>
       /\ stream.ws[1].m =
            [Message("PlayerSession") EXCEPT !.game_id = stream.reply.game_id]
       /\ MessagesOfType(stream.ws, "PlayerSession") = {1}
       /\ IF stream.ws[1].ok
          THEN /\ stream.result = "Ok"
               /\ stream.worker # "not_spawned"
               /\ stream.cell
               /\ stream.dispatched = 0
                    => stream.current_game_id = stream.reply.game_id
          ELSE /\ stream.result = "Err_Ws"
               /\ stream.worker = "not_spawned"
               /\ Len(stream.ws) = 1
               /\ stream.dispatched = 0
  /\ stream.worker # "not_spawned" =>
       /\ stream.reply.type = "ConnectLobbyAccept"
       /\ stream.reply.ok
       /\ stream.ws[1].ok
  /\ stream.worker = "not_spawned" => stream.dispatched = 0

C15_Witness ==
  /\ stream.reply.type = "ConnectLobbyAccept"
  /\ stream.reply.game_id = <<1>>
  /\ Len(stream.ws) = 2
  /\ stream.ws[1].m.t = "PlayerSession"
  /\ stream.ws[1].m.game_id = <<1>>
  /\ stream.ws[2].m.t = "GamePlayerEnter"
  /\ stream.current_game_id = <<1>>
  /\ stream.worker = "running"

(***************************************************************************)
(* C16: when the worker loop has exited on a failure (an error sending a   *)
(* frame to the server, an error receiving a frame, a dispatch error or a  *)
(* user-sink error), the last message it handed to the user sink is        *)
(* Disconnect{Unknown, "<phase>: <err>"}.  The code breaks out of the loop *)
(* on a send error without handing the sink anything.                      *)
(***************************************************************************)
C16_FailureEmitsDisconnect ==
  stream.worker = "exited" /\ stream.exit # "sender_dropped" =>
    /\ stream.ws # <<>>
    /\ Last(stream.ws).m.t = "Disconnect"
    /\ Last(stream.ws).m.reason = "Unknown"
    /\ Last(stream.ws).m.message \in {"send", "recv", "dispatch"}

(***************************************************************************)
(* C17: the step in which the worker finds the outbound channel closed     *)
(* (every sender dropped, no frame left in the queue) ends the loop and    *)
(* hands nothing to the user sink and sends nothing to the server; a       *)
(* worker that has exited never does either.                               *)
(***************************************************************************)
C17_SenderDroppedSilent ==
  /\ [][stream.worker = "running" /\ stream'.worker = "exited"
          /\ stream'.exit = "sender_dropped" =>
            /\ stream.chan = "senders_dropped"
            /\ stream.frame_r = <<>>
            /\ stream'.ws = stream.ws
            /\ stream'.server_out = stream.server_out]_vars
  /\ [][stream.worker = "exited" =>
          /\ stream'.ws = stream.ws
          /\ stream'.server_out = stream.server_out
          /\ stream'.worker = "exited"]_vars
  /\ [](stream.worker = "running" /\ stream.chan = "senders_dropped"
          /\ stream.frame_r = <<>> => ENABLED WorkerSenderDropped)

(* The queued frame was written before the worker saw the channel closed. *)
C17_Witness ==
  /\ stream.worker = "exited"
  /\ stream.exit = "sender_dropped"
  /\ stream.n.out = 1
  /\ Last(stream.server_out) = ToServer("Outbound", "o1")
  /\ Len(stream.ws) = 2
  /\ Last(stream.ws).m.t = "GamePlayerEnter"

(***************************************************************************)
(* C18: dispatching a ListNodes packet leaves a registry whose nodes are   *)
(* the packet's nodes, and the ListNodes message handed to the user sink   *)
(* has one node per packet node, in the packet's order, each with the ping *)
(* the registry holds for that id when the message is handed over.         *)
(***************************************************************************)
C18_ListNodesAnnotated ==
  [][RecvStep("ListNodes") =>
       LET p == stream'.last
           n == Len(stream.ws)
       IN /\ DOMAIN stream'.nodes.map = Range(p.nodes)
          /\ Len(stream'.ws) > n
          /\ LET m == stream'.ws[n + 1].m
             IN /\ m.t = "ListNodes"
                /\ Len(m.nodes) = Len(p.nodes)
                /\ \A k \in DOMAIN p.nodes :
                     /\ m.nodes[k].id = p.nodes[k]
                     /\ m.nodes[k].ping = stream'.nodes.map[p.nodes[k]]
          /\ MessagesOfType(stream'.ws, "ListNodes")
               = MessagesOfType(stream.ws, "ListNodes") \cup {n + 1}]_vars

(* The registry held ping 30 for node 7 and, after the list, none. *)
C18_Witness ==
  /\ stream.last.type = "ListNodes"
  /\ stream.n.frames = 1
  /\ Len(stream.ws) = 2
  /\ stream.ws[2].ok
  /\ stream.ws[2].m.t = "ListNodes"
  /\ stream.ws[2].m.nodes = <<[id |-> 8, ping |-> <<30>>],
                              [id |-> 7, ping |-> <<>>]>>
  /\ stream.nodes.map[7] = <<>>
  /\ stream.nodes.map[8] = <<30>>

(***************************************************************************)
(***************************************************************************)
(* The LAN game and its mDNS publisher (crates/client/src/lan/game/mod.rs):*)
(* LanGame::create spawns the publisher worker, which keeps the record     *)
(* published until the game's scope is dropped or mdns_shutdown_notify is  *)
(* notified, then sleeps one second and drops the publisher.               *)
(*                                                                         *)
(* One step is a call of update_game_status, the drop of the LanGame, a    *)
(* step of the publisher worker between two awaits, or a second of its     *)
(* sleep.  The runtime runs a task that can run, and timers fire.          *)
(***************************************************************************)
(***************************************************************************)
MaxStatusUpdates == 2   \* calls of update_game_status

MDNS_RELEASE_DELAY_SECS == 1

NodeGameStatus ==
  {"Created", "Waiting", "Loading", "Running", "Ended", "Terminated"}

(* The state after LanGame::create. *)
InitLanGame ==
  /\ game = [pc |-> "select", published |-> TRUE, permit |-> FALSE,
             scope_dropped |-> FALSE, calls |-> <<>>, proxy |-> <<>>,
             notifies |-> 0, t |-> 0, woke |-> "none"]
  /\ stream = NoStream
  /\ controller = NoController
  /\ map_sha1 = NoMapSha1
  /\ NoLobby

update_game_status_allButCreated(status) ==
  /\ game.pc # "absent"
  /\ ~game.scope_dropped
  /\ Len(game.calls) < MaxStatusUpdates
  /\ LET fire == status # "Created"
     IN game' = [game EXCEPT
                   !.calls = Append(@, status),
                   !.permit = @ \/ fire,
                   !.notifies = IF fire THEN @ + 1 ELSE @,
                   !.proxy = Append(@, status)]
  /\ UNCHANGED <<lobbyVars, stream, ctlVars>>

(* Notify::notify stores a permit unless one is stored already; the proxy  *)
(* is told the status in every case.                                       *)
update_game_status(status) ==
  /\ game.pc # "absent"
  /\ ~game.scope_dropped
  /\ Len(game.calls) < MaxStatusUpdates
  /\ LET fire == status \notin {"Created", "Waiting", "Loading"}
     IN game' = [game EXCEPT
                   !.calls = Append(@, status),
                   !.permit = @ \/ fire,
                   !.notifies = IF fire THEN @ + 1 ELSE @,
                   !.proxy = Append(@, status)]
  /\ UNCHANGED <<lobbyVars, stream, ctlVars>>

(* The LanGame is dropped (or consumed by shutdown): so is its SpawnScope. *)
DropLanGame ==
  /\ game.pc # "absent"
  /\ ~game.scope_dropped
  /\ game' = [game EXCEPT !.scope_dropped = TRUE]
  /\ UNCHANGED <<lobbyVars, stream, ctlVars>>

(* The select! of the publisher worker: scope.left() or notified(). *)
PublisherWake(by) ==
  /\ game.pc = "select"
  /\ \/ by = "scope" /\ game.scope_dropped
     \/ by = "notify" /\ game.permit
  /\ game' = [game EXCEPT
                !.pc = "delay", !.t = 0, !.woke = by,
                !.permit = IF by = "notify" THEN FALSE ELSE @]
  /\ UNCHANGED <<lobbyVars, stream, ctlVars>>

(* A second of delay_for(1s) passes. *)
PublisherDelayTick ==
  /\ game.pc = "delay"
  /\ game.t < MDNS_RELEASE_DELAY_SECS
  /\ game' = [game EXCEPT !.t = @ + 1]
  /\ UNCHANGED <<lobbyVars, stream, ctlVars>>

PublisherExit_noDelay ==
  /\ game.pc = "delay"
  /\ game' = [game EXCEPT !.pc = "exited", !.published = FALSE]
  /\ UNCHANGED <<lobbyVars, stream, ctlVars>>

(* The sleep is over: the worker ends and _publisher is dropped. *)
PublisherExit ==
  /\ game.pc = "delay"
  /\ game.t = MDNS_RELEASE_DELAY_SECS
  /\ game' = [game EXCEPT !.pc = "exited", !.published = FALSE]
  /\ UNCHANGED <<lobbyVars, stream, ctlVars>>

NextLanGame ==
  \/ \E status \in NodeGameStatus : update_game_status(status)
  \/ DropLanGame
  \/ \E by \in {"scope", "notify"} : PublisherWake(by)
  \/ PublisherDelayTick
  \/ PublisherExit

SpecLanGame ==
  /\ InitLanGame
  /\ [][NextLanGame]_vars
  /\ WF_vars(\E by \in {"scope", "notify"} : PublisherWake(by))
  /\ WF_vars(PublisherDelayTick)
  /\ WF_vars(PublisherExit)

(***************************************************************************)
(* C19: update_game_status notifies the publisher's shutdown notifier      *)
(* exactly for the statuses outside {Created, Waiting, Loading} and tells  *)
(* the proxy every status; the record is published as long as neither the  *)
(* notifier was notified nor the game's scope dropped; once either         *)
(* happened the record is released, and it is released only after the      *)
(* worker has slept one second.                                            *)
(***************************************************************************)
C19_Terminal(s) == s \notin {"Created", "Waiting", "Loading"}

C19_Safety ==
  /\ game.proxy = game.calls
  /\ game.notifies =
       Cardinality({k \in DOMAIN game.calls : C19_Terminal(game.calls[k])})
  /\ game.notifies = 0 /\ ~game.scope_dropped =>
       game.published /\ game.pc = "select"
  /\ ~game.published =>
       /\ game.pc = "exited"
       /\ game.t = MDNS_RELEASE_DELAY_SECS
       /\ game.woke = "notify" => game.notifies > 0
       /\ game.woke = "scope" => game.scope_dropped
       /\ game.woke # "none"
  /\ game.pc = "delay" => game.published

C19_MdnsShutdown ==
  /\ []C19_Safety
  /\ (game.notifies > 0 \/ game.scope_dropped) ~> ~game.published

C19_Witness ==
  /\ game.calls = <<"Loading", "Ended">>
  /\ game.notifies = 1
  /\ ~game.scope_dropped
  /\ game.woke = "notify"
  /\ ~game.published

(***************************************************************************)
(* C20: a LeaveReq received by the lobby handler is ignored: the step that *)
(* receives it changes no join counter and no recorded status, writes no   *)
(* frame to the client, reports nothing to the node or the user sink, does *)
(* not enter the start sequence, and leaves run() waiting in its select!;  *)
(* run() never returns Leave.                                              *)
(***************************************************************************)
C20_LeaveReqIgnored ==
  /\ [](result # "Leave")
  /\ [][cnt'.pkts = cnt.pkts + 1 /\ cnt'.leave = 1 =>
          /\ pc = "select"
          /\ pc' = "select"
          /\ result' = "none"
          /\ UNCHANGED <<join_state, events, traffic, pending, reported,
                         starting, status_rx, notifyPermit>>]_vars

(* The last packet was a LeaveReq; a later status started the game. *)
C20_Witness ==
  /\ cnt.leave = 1
  /\ result = "Start"
  /\ CountDownEnds = 1

(***************************************************************************)
(* The packet types handle_packet and run() have an arm for.               *)
(***************************************************************************)
LobbyWhitelist ==
  {"ReqJoin", "MapSize", "ChatToHost", "PongToHost", "ProtoBufPayload",
   "LeaveReq"}

(* The step receives packet p from the client (whether or not a write of   *)
(* the step fails).  RecvPacket counts the packet and leaves the join      *)
(* state handle_packet returns; the first two conjuncts say so again and   *)
(* are there to be evaluated first.                                        *)
Receives(p) ==
  /\ cnt'.pkts = cnt.pkts + 1
  /\ join_state' = handle_packet(p, join_state).js
  /\ \E brk, up \in BOOLEAN : RecvPacket(p, brk, up)

(***************************************************************************)
(* C21: a client packet whose type is outside the whitelist (ReqJoin,      *)
(* MapSize, ChatToHost, PongToHost, ProtoBufPayload, LeaveReq) is fatal:   *)
(* the step that receives it makes run() return UnexpectedW3GSPacket,      *)
(* writes no frame to the client, reports nothing, changes no join counter *)
(* and does not enter the start sequence; and run() returns that error for *)
(* no other reason.                                                        *)
(***************************************************************************)
C21_UnexpectedPacketFatal ==
  /\ [][\A p \in Packets :
          p.type \notin LobbyWhitelist /\ Receives(p) =>
            /\ pc' = "returned"
            /\ result' = "Err_UnexpectedW3GSPacket"
            /\ UNCHANGED <<join_state, events, traffic, pending, reported,
                           starting>>]_vars
  /\ [][result' = "Err_UnexpectedW3GSPacket" /\ result = "none" =>
          \E p \in Packets : p.type \notin LobbyWhitelist /\ Receives(p)]_vars

(* The unexpected packet came after a join reply and a ready client whose  *)
(* status would have started the game on any further status change.        *)
C21_Witness ==
  /\ result = "Err_UnexpectedW3GSPacket"
  /\ cnt.pkts = MaxPackets
  /\ reported
  /\ ~starting
  /\ CountDownStarts = 0

(***************************************************************************)
(* The counter of JoinPacketRecvState and the echo a protobuf message type *)
(* has, for the three types that have them.                                *)
(***************************************************************************)
CountedTypes == {"PlayerProfile", "PlayerSkins", "PlayerUnknown5"}

CounterOf(inner) ==
  CASE inner = "PlayerProfile" -> "num_profile"
    [] inner = "PlayerSkins" -> "num_skins"
    [] inner = "PlayerUnknown5" -> "num_unk5"

EchoOf(inner) ==
  CASE inner = "PlayerProfile" -> "echo_profile"
    [] inner = "PlayerSkins" -> "echo_skins"
    [] inner = "PlayerUnknown5" -> "echo_unk5"

(***************************************************************************)
(* C22: the step that receives a decodable ProtoBufPayload of inner type   *)
(* PlayerProfile, PlayerSkins or PlayerUnknown5 adds one to the counter of *)
(* that type and to no other, and writes the packet back to the client     *)
(* once (one echo of that type and no other frame), unless that write      *)
(* fails, in which case run() returns the I/O error; with inner type       *)
(* Unknown2 or UnknownValue the step changes no counter, writes and        *)
(* reports nothing, and run() stays in its select!.                        *)
(***************************************************************************)
C22_ProtoBufPayload ==
  [][\A p \in Packets :
       p.type = "ProtoBufPayload" /\ p.ok /\ Receives(p) =>
         IF p.inner \in CountedTypes
         THEN /\ join_state' =
                   [join_state EXCEPT ![CounterOf(p.inner)] = @ + 1]
              /\ \/ traffic' = [traffic EXCEPT ![EchoOf(p.inner)] = @ + 1]
                 \/ traffic' = traffic /\ result' = "Err_Io"
              /\ pending' = pending
         ELSE /\ UNCHANGED <<join_state, traffic, events, pending, reported,
                             starting>>
              /\ pc' = "select"
              /\ result' = "none"]_vars

(* One packet of each counted type was echoed, and a decodable payload of  *)
(* another type can only have been dropped.                                *)
C22_Witness ==
  /\ join_state.num_profile = 1
  /\ join_state.num_skins = 1
  /\ join_state.num_unk5 = 1
  /\ traffic.echo_profile = 1
  /\ traffic.echo_skins = 1
  /\ traffic.echo_unk5 = 1
  /\ join_state.total_players = 1
  /\ reported

(***************************************************************************)
(* Reading a dispatch step of the control-plane stream.                    *)
(***************************************************************************)
(* The node id a GameInfo or GameSelectNode packet selects. *)
SelectedBy(p) ==
  IF p.type = "GameInfo"
  THEN (IF p.game = "node" THEN p.node_id ELSE <<>>)
  ELSE p.node_id

(* The registry accepts the selection of id. *)
Selectable(reg, id) == id = <<>> \/ id[1] \in DOMAIN reg.map

(* The user message of a packet type. *)
MessageTypeOf(t) ==
  CASE t = "GameInfo" -> "CurrentGameInfo"
    [] t = "LobbyDisconnect" -> "Disconnect"
    [] OTHER -> t

(* The step hands exactly one new message of type t to the sink, as the    *)
(* first message of the step; the sink takes it unless the loop ends.      *)
EmitsOne(t) ==
  LET n == Len(stream.ws)
  IN /\ Len(stream'.ws) > n
     /\ SubSeq(stream'.ws, 1, n) = stream.ws
     /\ stream'.ws[n + 1].m.t = t
     /\ MessagesOfType(stream'.ws, t) = MessagesOfType(stream.ws, t) \cup {n + 1}
     /\ stream'.ws[n + 1].ok <=> stream'.worker = "running"

(* The step hands no message of type t to the sink. *)
EmitsNone(t) ==
  /\ MessagesOfType(stream'.ws, t) = MessagesOfType(stream.ws, t)
  /\ SubSeq(stream'.ws, 1, Len(stream.ws)) = stream.ws

(***************************************************************************)
(* C23 as stated: a GameInfo or GameSelectNode step whose registry update  *)
(* succeeds hands exactly one CurrentGameInfo or GameSelectNode message to *)
(* the sink.  A GameInfo without a game clears the selection and then      *)
(* fails to extract the game, so no CurrentGameInfo is emitted.            *)
(***************************************************************************)
C23_OneMessageWhenRegistryUpdated ==
  [][\A t \in {"GameInfo", "GameSelectNode"} :
       RecvStep(t) /\ Selectable(stream.nodes, SelectedBy(stream'.last)) =>
         EmitsOne(MessageTypeOf(t))]_vars

(***************************************************************************)
(* C23: dispatching GameInfo sets selected_node_id to game.node.id when    *)
(* the packet carries a game with a node id and clears it otherwise;       *)
(* dispatching GameSelectNode sets it to the packet's node_id; a selection *)
(* the registry refuses changes nothing.  Neither packet changes           *)
(* current_game_id or the registered nodes.  When the registry update      *)
(* succeeds the step emits exactly one user message (CurrentGameInfo,      *)
(* GameSelectNode) carrying the selection, except for a GameInfo without a *)
(* game, which emits none and ends the loop with a dispatch error; when    *)
(* the update fails no such message is emitted.                            *)
(***************************************************************************)
C23_SelectNode ==
  [][\A t \in {"GameInfo", "GameSelectNode"} :
       RecvStep(t) =>
         LET p == stream'.last
             id == SelectedBy(p)
             n == Len(stream.ws)
         IN /\ stream'.current_game_id = stream.current_game_id
            /\ stream'.nodes.map = stream.nodes.map
            /\ IF Selectable(stream.nodes, id)
               THEN /\ stream'.nodes.selected_node_id = id
                    /\ IF t = "GameInfo" /\ p.game = "none"
                       THEN /\ EmitsNone(MessageTypeOf(t))
                            /\ stream'.worker = "exited"
                            /\ stream'.exit = "dispatch"
                       ELSE /\ EmitsOne(MessageTypeOf(t))
                            /\ stream'.ws[n + 1].m.node_id = id
               ELSE /\ stream'.nodes.selected_node_id =
                         stream.nodes.selected_node_id
                    /\ EmitsNone(MessageTypeOf(t))
                    /\ stream'.worker = "exited"]_vars

(* With node 7 selected, a GameInfo without a game was dispatched: the     *)
(* selection is cleared, the sink got no CurrentGameInfo and the loop      *)
(* ended.                                                                  *)
C23_Witness ==
  /\ stream.n.frames = 2
  /\ Len(stream.ws) = 3
  /\ stream.ws[2].m.t = "GameSelectNode"
  /\ stream.ws[2].m.node_id = <<7>>
  /\ stream.last.type = "GameInfo"
  /\ stream.last.game = "none"
  /\ stream.nodes.selected_node_id = <<>>
  /\ 7 \in DOMAIN stream.nodes.map
  /\ MessagesOfType(stream.ws, "CurrentGameInfo") = {}
  /\ stream.ws[3].m = Disconnect("Unknown", "dispatch")
  /\ stream.exit = "dispatch"

(***************************************************************************)
(* The packet types dispatch has an arm for.                               *)
(***************************************************************************)
DispatchArms ==
  PassThroughTypes
  \cup {"LobbyDisconnect", "GameInfo", "PlayerSessionUpdate", "ListNodes",
        "GameSelectNode"}

(***************************************************************************)
(* C24: a control-plane frame whose type matches no arm is an error and    *)
(* is never ignored.  In the loop, the step that receives such a frame     *)
(* (Ping aside, which the loop answers itself) leaves the node registry    *)
(* and current_game_id unchanged, hands the sink one message, the          *)
(* Disconnect{Unknown, "dispatch: ..."}, and ends the loop.  In connect(), *)
(* a reply that is neither Accept nor Reject makes connect() fail with     *)
(* that error: no cell, no channel, no message to the sink, no worker.     *)
(***************************************************************************)
C24_UnmatchedFrameIsError ==
  /\ [][stream'.n.frames = stream.n.frames + 1
          /\ stream'.last.type \notin DispatchArms \cup {"Ping"} =>
            /\ stream'.nodes = stream.nodes
            /\ stream'.current_game_id = stream.current_game_id
            /\ Len(stream'.ws) = Len(stream.ws) + 1
            /\ SubSeq(stream'.ws, 1, Len(stream.ws)) = stream.ws
            /\ Last(stream'.ws).m = Disconnect("Unknown", "dispatch")
            /\ stream'.server_out = stream.server_out
            /\ stream'.worker = "exited"
            /\ stream'.exit = "dispatch"]_vars
  /\ [][stream.pc = "recv_reply" /\ stream'.reply # stream.reply
          /\ stream'.reply.type
               \notin {"ConnectLobbyAccept", "ConnectLobbyReject"} =>
            /\ stream'.pc = "done"
            /\ stream'.result = match_packet_unmatched
            /\ stream'.worker = "not_spawned"
            /\ stream'.chan = "none"
            /\ ~stream'.cell
            /\ stream'.ws = stream.ws]_vars
  /\ [](stream.pc = "done" /\ stream.result = match_packet_unmatched =>
          stream.worker = "not_spawned" /\ stream.ws = <<>>)

(* After a GameSelectNode the server sent a second ConnectLobbyAccept: the *)
(* selection stands and the loop ended with the Disconnect.                *)
C24_Witness ==
  /\ stream.n.frames = 2
  /\ stream.last.type = "ConnectLobbyAccept"
  /\ Len(stream.ws) = 3
  /\ stream.ws[2].m.t = "GameSelectNode"
  /\ stream.ws[3].m = Disconnect("Unknown", "dispatch")
  /\ stream.nodes.selected_node_id = <<7>>
  /\ stream.worker = "exited"
  /\ stream.exit = "dispatch"

(***************************************************************************)
(* The lobby handler under a fair scheduler: a branch of the select! that  *)
(* is ready is eventually taken, a write or a sleep that was started       *)
(* eventually completes, and time passes.  The client and the node are     *)
(* free to send or not.                                                    *)
(***************************************************************************)
SpecLobbyFair ==
  /\ Init
  /\ [][Next]_vars
  /\ WF_vars(StatusChanged)
  /\ WF_vars(\E brk, up \in BOOLEAN : SendAllFrame(brk, up))
  /\ WF_vars(\E brk \in BOOLEAN : SendSlotInfo(brk))
  /\ WF_vars(\E brk \in BOOLEAN : SendCountDownStart(brk))
  /\ WF_vars(Tick)
  /\ WF_vars(SleepDone)
  /\ WF_vars(\E brk \in BOOLEAN : Notified(brk))
  /\ WF_vars(\E brk \in BOOLEAN : NotifyTimeout(brk))
  /\ WF_vars(\E brk \in BOOLEAN : SleepMoreDone(brk))

(* run() has not returned an error. *)
NoFailure == result \in {"none", "Start"}

(***************************************************************************)
(* C25: if the client has delivered all required join packets at some      *)
(* point of a session (the readiness report was made), the node's status   *)
(* ends up Loading or Running, and no stream fails (run() returns no       *)
(* error), then run() eventually returns Start, whatever further packets   *)
(* of the whitelist the client sends in between.  A further PlayerProfile, *)
(* PlayerSkins or PlayerUnknown5 packet refutes it: the counter passes its *)
(* target, is_ready() compares with equality and is false from then on.    *)
(***************************************************************************)
C25_ReadyThenStatusStarts ==
  ([]NoFailure /\ <>reported
     /\ <>[](status_rx.val \in {"Loading", "Running"}))
    => <>(result = "Start")

(***************************************************************************)
(* The countdown window: CountDownStart is written, CountDownEnd is not,   *)
(* and run() has not returned.                                             *)
(***************************************************************************)
InCountdown ==
  /\ CountDownStarts = 1
  /\ CountDownEnds = 0
  /\ pc # "returned"

(***************************************************************************)
(* C26: from the moment CountDownStart is written until CountDownEnd is    *)
(* written, run() is inside send_start: every step of the window writes no *)
(* frame to the client other than CountDownEnd (no ping, echo, chat reply  *)
(* or join reply), reads no client packet, takes no status change from the *)
(* watch channel (a status published in the window stays unseen and the    *)
(* recorded status is not changed) and reports nothing; and the window     *)
(* ends with CountDownEnd and Start, or with the I/O error of that write,  *)
(* whatever the client and the node did meanwhile.                         *)
(***************************************************************************)
C26_CountdownUninterrupted ==
  /\ [](InCountdown => pc \in {"sleep", "wait_notify", "sleep_more"})
  /\ [][InCountdown =>
          /\ UNCHANGED <<traffic, join_state, reported, starting, pending, cnt>>
          /\ status_rx.changed => status_rx'.changed
          /\ \/ events' = events /\ result' = "none"
             \/ /\ events' = Append(events, Frame("CountDownEnd", 0, "", "start"))
                /\ result' = "Start"
             \/ events' = events /\ result' = "Err_Io" /\ woke' # "none"]_vars

(* The countdown ran to CountDownEnd and Start while a status that does    *)
(* not start a game sat unseen on the watch channel, and with client       *)
(* packets and a tick of the ping timer still to come.                     *)
C26_Witness ==
  /\ result = "Start"
  /\ CountDownEnds = 1
  /\ status_rx.changed
  /\ status_rx.val = "Waiting"
  /\ join_state.status = "Loading"
  /\ cnt.pkts < MaxPackets
  /\ cnt.pings < MaxPings

(***************************************************************************)
(* The handler takes a notification of the watch channel in this step.     *)
(***************************************************************************)
ObservesStatus == status_rx.changed /\ ~status_rx'.changed

(***************************************************************************)
(* C27: the status the handler has recorded is the latest non-empty value  *)
(* it observed on the watch channel, or the value it read when run()       *)
(* began: run() begins with the channel's value recorded; a step that      *)
(* takes a notification records its value if that is not None and leaves   *)
(* the record alone if it is None; no other step changes the record, and   *)
(* a recorded status is never cleared.  So when the recorded status is     *)
(* Loading or Running, the packet that completes readiness enters the      *)
(* start sequence in the same step, with no further status change.         *)
(***************************************************************************)
C27_StatusIsLatestObserved ==
  /\ join_state.status = status_rx.val
  /\ [][/\ join_state'.status =
             IF ObservesStatus /\ status_rx.val # None
             THEN status_rx.val
             ELSE join_state.status
        /\ join_state.status # None => join_state'.status # None]_vars
  /\ [][(~is_ready(join_state) /\ is_ready(join_state')
           /\ join_state.status \in {"Loading", "Running"}
           /\ result' = "none") =>
          /\ status_rx' = status_rx
          /\ starting'
          /\ pc' = "send_slot_info"]_vars

(* The handler recorded Loading, took a None notification that left the    *)
(* record alone, and entered the start sequence on the packet that         *)
(* completed readiness.                                                    *)
C27_Witness ==
  /\ status_rx = [val |-> None, changed |-> FALSE]
  /\ join_state.status = "Loading"
  /\ pc = "send_slot_info"
  /\ starting
  /\ is_ready(join_state)

(***************************************************************************)
(* The messages of a log the sink took.                                    *)
(***************************************************************************)
Taken(ws) == {k \in DOMAIN ws : ws[k].ok}

(* The worker's recv arm handles a frame that is not a Ping in this step. *)
DispatchStep ==
  /\ stream'.n.frames = stream.n.frames + 1
  /\ stream'.last.type # "Ping"

(***************************************************************************)
(* C28: the log of the user sink only grows at its end, so messages are    *)
(* never reordered or removed; a received frame that is not a Ping gives   *)
(* the sink at most one message that it takes; while the loop keeps        *)
(* running that is exactly one, the message of the frame's type, appended  *)
(* in the step that received the frame, so the sink's messages are in the  *)
(* order of their frames.  When the step ends the loop, the sink is handed *)
(* the frame's message (if dispatch built one and the sink refused it) and *)
(* then the Disconnect.  A Ping gives the sink nothing.                    *)
(***************************************************************************)
C28_MessagesInFrameOrder ==
  /\ [][SubSeq(stream'.ws, 1, Len(stream.ws)) = stream.ws]_vars
  /\ [][DispatchStep =>
          LET n == Len(stream.ws)
          IN /\ Cardinality(Taken(stream'.ws)) <= Cardinality(Taken(stream.ws)) + 1
             /\ IF stream'.worker = "running"
                THEN /\ Len(stream'.ws) = n + 1
                     /\ stream'.ws[n + 1].ok
                     /\ stream'.ws[n + 1].m.t = MessageTypeOf(stream'.last.type)
                ELSE /\ Len(stream'.ws) \in {n + 1, n + 2}
                     /\ Last(stream'.ws).m = Disconnect("Unknown", "dispatch")
                     /\ Len(stream'.ws) = n + 2 =>
                          /\ ~stream'.ws[n + 1].ok
                          /\ stream'.ws[n + 1].m.t
                               = MessageTypeOf(stream'.last.type)]_vars
  /\ [][RecvStep("Ping") => stream'.ws = stream.ws]_vars

(* Two frames were received and the sink holds their messages in that      *)
(* order, after the PlayerSession of connect().                            *)
C28_Witness ==
  /\ stream.worker = "running"
  /\ stream.n.frames = 2
  /\ Len(stream.ws) = 3
  /\ Taken(stream.ws) = {1, 2, 3}
  /\ stream.ws[1].m.t = "PlayerSession"
  /\ stream.ws[2].m.t = "ListNodes"
  /\ stream.ws[3].m.t = "CurrentGameInfo"
  /\ stream.last.type = "GameInfo"

(***************************************************************************)
(* The Disconnect messages the loop itself generates: reason Unknown and   *)
(* the phase in the text ("dispatch: ...", "recv: ...").  A Disconnect     *)
(* made from a server's LobbyDisconnect has the server's reason and the    *)
(* text "Server closed the connection".                                    *)
(***************************************************************************)
LoopDisconnects(ws) ==
  {k \in DOMAIN ws :
     ws[k].m \in {Disconnect("Unknown", "dispatch"), Disconnect("Unknown", "recv")}}

(***************************************************************************)
(* C29: the loop generates a Disconnect{Unknown} at most once in a         *)
(* session; it is the last message handed to the sink and the loop has     *)
(* exited when it is there; once the loop has exited no frame is written   *)
(* to the server, nothing is handed to the sink and neither the node       *)
(* registry nor current_game_id changes; and the step that dispatches a    *)
(* server's LobbyDisconnect leaves the loop running whenever its reason    *)
(* unpacks and the sink takes the message.                                 *)
(***************************************************************************)
C29_DisconnectOnceAndLast ==
  /\ [](/\ Cardinality(LoopDisconnects(stream.ws)) <= 1
        /\ \A k \in LoopDisconnects(stream.ws) :
             k = Len(stream.ws) /\ stream.worker = "exited"
        /\ stream.exit \in {"dispatch", "recv"} =>
             LoopDisconnects(stream.ws) # {})
  /\ [][stream.worker = "exited" =>
          /\ stream'.worker = "exited"
          /\ stream'.server_out = stream.server_out
          /\ stream'.ws = stream.ws
          /\ stream'.nodes = stream.nodes
          /\ stream'.current_game_id = stream.current_game_id]_vars
  /\ [][RecvStep("LobbyDisconnect") /\ stream'.last.ok =>
          LET n == Len(stream.ws)
          IN /\ Len(stream'.ws) > n
             /\ stream'.ws[n + 1].m =
                  Disconnect(stream'.last.reason, "Server closed the connection")
             /\ stream'.ws[n + 1].ok => stream'.worker = "running"]_vars

(* The server sent LobbyDisconnect with reason Unknown, the loop went on,  *)
(* and the read error that followed ended it with the loop's Disconnect.   *)
C29_Witness ==
  /\ stream.worker = "exited"
  /\ stream.exit = "recv"
  /\ stream.chan = "senders_dropped"
  /\ Len(stream.ws) = 3
  /\ stream.ws[2] = [m |-> Disconnect("Unknown", "Server closed the connection"),
                     ok |-> TRUE]
  /\ stream.ws[3].m = Disconnect("Unknown", "recv")
  /\ LoopDisconnects(stream.ws) = {3}

(***************************************************************************)
(* The packet types whose dispatch arm writes shared state.                *)
(***************************************************************************)
SideEffectTypes ==
  {"GameInfo", "PlayerSessionUpdate", "ListNodes", "GameSelectNode"}

MaxCalls == 2          \* requests the service receives

GameIds == {1, 2}

PlayerIds == {1, 2}

(* JoinGameByTokenRequest.token as validate_join_token sees it: <<>> does  *)
(* not validate, <<g>> is a join token of game g.                          *)
JoinTokens == {<<>>} \cup {<<g>> : g \in GameIds}

(* What the game actor answers to PlayerLeave: an error, or               *)
(* PlayerLeaveResult with its game_ended flag.                             *)
PlayerLeaveReplies == {"Err", "ended", "not_ended"}

(* A message as the service sends it: `to` is the game actor or the games  *)
(* registry, `by` the request whose handler sent it, `ok` whether the      *)
(* awaited send returned Ok.                                               *)
Sent(to, msg, game_id, player_id, by, ok) ==
  [to |-> to, msg |-> msg, game_id |-> game_id, player_id |-> player_id,
   by |-> by, ok |-> ok]

(* The games registry's index of the games each player is in, as the       *)
(* registry changes it on a message.  Remove carries no player (0 here).   *)
registry_handle(index, m) ==
  CASE m.msg = "AddGamePlayer" ->
         [index EXCEPT ![m.player_id] = @ \cup {m.game_id}]
    [] m.msg = "RemoveGamePlayer" ->
         [index EXCEPT ![m.player_id] = @ \ {m.game_id}]
    [] m.msg = "Remove" ->
         [p \in PlayerIds |-> index[p] \ {m.game_id}]
    [] OTHER -> index

(* The index the registry holds when the service starts: every player is   *)
(* in the game of the same number, so that each of the three messages can  *)
(* change it.                                                              *)
PlayerGames == {[p \in PlayerIds |-> {p} \cap GameIds]}

InitController ==
  /\ controller \in
       [pc : {"serving"}, calls : {<<>>}, sent : {<<>>},
        player_games : PlayerGames]
  /\ map_sha1 = NoMapSha1
  /\ stream = NoStream
  /\ game = NoGame
  /\ NoLobby

(* A request in its handler: pc is "registry" between the two awaits and   *)
(* "done" when the handler has returned `result`.                          *)
Call(kind, game_id, player_id, pc_, result_, game_ended) ==
  [kind |-> kind, game_id |-> game_id, player_id |-> player_id,
   pc |-> pc_, result |-> result_, game_ended |-> game_ended]

(* The handler of a new request sends msg to the actor of game_id and      *)
(* awaits the answer; `?` returns the error at once.                       *)
AskGameActor(kind, msg, game_id, player_id, ok, game_ended) ==
  LET by == Len(controller.calls) + 1
      c == IF ok
           THEN Call(kind, game_id, player_id, "registry", "none", game_ended)
           ELSE Call(kind, game_id, player_id, "done", "Err_" \o msg, FALSE)
  IN controller' =
       [controller EXCEPT
          !.calls = Append(@, c),
          !.sent = Append(@, Sent("game", msg, game_id, player_id, by, ok))]

(* The handler of request `by` sends msg to the games registry and awaits  *)
(* it; a registry that has stopped takes no message and the handler        *)
(* returns the error.  After that the handler returns `result_`.           *)
TellRegistry(by, msg, delivered, result_) ==
  LET c == controller.calls[by]
      m == Sent("registry", msg, c.game_id,
                IF msg = "Remove" THEN 0 ELSE c.player_id, by, delivered)
  IN controller' =
       [controller EXCEPT
          !.calls[by].pc = "done",
          !.calls[by].result =
            IF delivered THEN result_ ELSE "Err_registry",
          !.sent = Append(@, m),
          !.player_games = IF delivered THEN registry_handle(@, m) ELSE @]

NewCall ==
  /\ controller.pc = "serving"
  /\ Len(controller.calls) < MaxCalls

AtRegistry(by, kinds) ==
  /\ controller.pc = "serving"
  /\ by \in DOMAIN controller.calls
  /\ controller.calls[by].pc = "registry"
  /\ controller.calls[by].kind \in kinds

(* join_game without the `?` of the PlayerJoin: the handler goes on to the *)
(* registry whatever the game actor answered.                              *)
join_game_ignoresError(game_id, player_id, accepted) ==
  /\ NewCall
  /\ controller' =
       [controller EXCEPT
          !.calls = Append(@, Call("join_game", game_id, player_id,
                                   "registry", "none", FALSE)),
          !.sent = Append(@, Sent("game", "PlayerJoin", game_id, player_id,
                                  Len(controller.calls) + 1, accepted))]
  /\ UNCHANGED <<lobbyVars, stream, game, map_sha1>>

(* join_game, to the `?` of the PlayerJoin. *)
join_game(game_id, player_id, accepted) ==
  /\ NewCall
  /\ AskGameActor("join_game", "PlayerJoin", game_id, player_id, accepted,
                  FALSE)
  /\ UNCHANGED <<lobbyVars, stream, game, map_sha1>>

(* join_game_by_token, to the `?` of the PlayerJoin: a token that does not *)
(* validate returns before anything is sent.                               *)
join_game_by_token(token, player_id, accepted) ==
  /\ NewCall
  /\ IF token = <<>>
     THEN controller' =
            [controller EXCEPT
               !.calls = Append(@, Call("join_game_by_token", 0, player_id,
                                        "done", "Err_JoinToken", FALSE))]
     ELSE AskGameActor("join_game_by_token", "PlayerJoin", token[1],
                       player_id, accepted, FALSE)
  /\ UNCHANGED <<lobbyVars, stream, game, map_sha1>>

(* The rest of both join handlers: AddGamePlayer, then the reply, whose    *)
(* game can fail to pack.                                                  *)
join_game_AddGamePlayer(by, delivered, packs) ==
  /\ AtRegistry(by, {"join_game", "join_game_by_token"})
  /\ TellRegistry(by, "AddGamePlayer", delivered,
                  IF packs THEN "Ok" ELSE "Err_pack")
  /\ UNCHANGED <<lobbyVars, stream, game, map_sha1>>

(* leave_game, to the `?` of the PlayerLeave. *)
leave_game(game_id, player_id, reply) ==
  /\ NewCall
  /\ AskGameActor("leave_game", "PlayerLeave", game_id, player_id,
                  reply # "Err", reply = "ended")
  /\ UNCHANGED <<lobbyVars, stream, game, map_sha1>>

(* leave_game without its test of res.game_ended: the player is taken out  *)
(* of the game whether the game has ended or not.                          *)
leave_game_update_ignoresEnded(game_ended) == "RemoveGamePlayer"

(* The registry update leave_game chooses on res.game_ended. *)
leave_game_update(game_ended) ==
  IF game_ended THEN "Remove" ELSE "RemoveGamePlayer"

(* The rest of leave_game. *)
leave_game_registry(by, delivered) ==
  /\ AtRegistry(by, {"leave_game"})
  /\ TellRegistry(by, leave_game_update(controller.calls[by].game_ended),
                  delivered, "Ok")
  /\ UNCHANGED <<lobbyVars, stream, game, map_sha1>>

(* cancel_game, to the `?` of the CancelGame. *)
cancel_game(game_id, player_id, cancelled) ==
  /\ NewCall
  /\ AskGameActor("cancel_game", "CancelGame", game_id, player_id,
                  cancelled, FALSE)
  /\ UNCHANGED <<lobbyVars, stream, game, map_sha1>>

(* The rest of cancel_game. *)
cancel_game_Remove(by, delivered) ==
  /\ AtRegistry(by, {"cancel_game"})
  /\ TellRegistry(by, "Remove", delivered, "Ok")
  /\ UNCHANGED <<lobbyVars, stream, game, map_sha1>>

NextController ==
  \/ \E g \in GameIds, p \in PlayerIds, accepted \in BOOLEAN :
       join_game(g, p, accepted)
  \/ \E token \in JoinTokens, p \in PlayerIds, accepted \in BOOLEAN :
       join_game_by_token(token, p, accepted)
  \/ \E by \in 1..MaxCalls, delivered \in BOOLEAN, packs \in BOOLEAN :
       join_game_AddGamePlayer(by, delivered, packs)
  \/ \E g \in GameIds, p \in PlayerIds, reply \in PlayerLeaveReplies :
       leave_game(g, p, reply)
  \/ \E by \in 1..MaxCalls, delivered \in BOOLEAN :
       leave_game_registry(by, delivered)
  \/ \E g \in GameIds, p \in PlayerIds, cancelled \in BOOLEAN :
       cancel_game(g, p, cancelled)
  \/ \E by \in 1..MaxCalls, delivered \in BOOLEAN :
       cancel_game_Remove(by, delivered)

SpecController == InitController /\ [][NextController]_vars

(***************************************************************************)
(* The log of the service, read per request.                               *)
(***************************************************************************)
JoinKinds == {"join_game", "join_game_by_token"}

(* The positions of the log at which request `by` sent a message to `to`. *)
SentBy(by, to) ==
  {k \in DOMAIN controller.sent :
     controller.sent[k].by = by /\ controller.sent[k].to = to}

(* Request `by` returned the error of its token or of its game actor. *)
FailedBeforeRegistry(c) ==
  c.pc = "done"
  /\ c.result \in {"Err_JoinToken", "Err_PlayerJoin", "Err_PlayerLeave",
                   "Err_CancelGame"}

(* The step is the handler of a new request, up to its first await. *)
NewCallStep ==
  Len(controller'.calls) = Len(controller.calls) + 1

(***************************************************************************)
(* C31: in join_game and join_game_by_token, AddGamePlayer goes to the     *)
(* games registry only after the game actor has accepted the PlayerJoin of *)
(* the same request for the same game and player; a request whose token    *)
(* does not validate or whose PlayerJoin fails returns that error, sends   *)
(* the registry nothing, and the step in which it fails leaves the         *)
(* registry's index of the players' games as it was.                       *)
(***************************************************************************)
C31_AddAfterAccepted ==
  /\ \A k \in DOMAIN controller.sent :
       LET m == controller.sent[k]
       IN m.msg = "AddGamePlayer" =>
            /\ controller.calls[m.by].kind \in JoinKinds
            /\ \E j \in 1..(k - 1) :
                 controller.sent[j] =
                   Sent("game", "PlayerJoin", m.game_id, m.player_id,
                        m.by, TRUE)
  /\ \A by \in DOMAIN controller.calls :
       LET c == controller.calls[by]
       IN /\ c.kind \in JoinKinds /\ c.pc = "done" /\ SentBy(by, "registry") = {}
             => c.result \in {"Err_JoinToken", "Err_PlayerJoin"}
          /\ c.kind \in JoinKinds /\ FailedBeforeRegistry(c)
             => /\ SentBy(by, "registry") = {}
                /\ \A k \in SentBy(by, "game") : ~controller.sent[k].ok

C31_FailedJoinKeepsIndex ==
  (NewCallStep
   /\ LET c == controller'.calls[Len(controller'.calls)]
      IN c.kind \in JoinKinds /\ FailedBeforeRegistry(c))
  => /\ controller'.player_games = controller.player_games
     /\ \A k \in DOMAIN controller'.sent :
          controller'.sent[k].to = "registry" => k \in DOMAIN controller.sent

C31_AddGamePlayerAfterPlayerJoin ==
  []C31_AddAfterAccepted /\ [][C31_FailedJoinKeepsIndex]_vars

(* One join was accepted and has put its player into a game the player was *)
(* not in; another join was refused by its game actor.                     *)
C31_Witness ==
  /\ controller.pc = "serving"
  /\ \E k \in DOMAIN controller.sent :
       LET m == controller.sent[k]
       IN /\ m.msg = "AddGamePlayer" /\ m.ok
          /\ m.game_id # m.player_id
          /\ m.game_id \in controller.player_games[m.player_id]
  /\ \E by \in DOMAIN controller.calls :
       controller.calls[by].result = "Err_PlayerJoin"

(* Request `by` has sent the registry exactly the message                  *)
(* msg{game_id, player_id}, and after the game actor accepted `asked`.     *)
OneUpdateAfter(by, msg, player_id, asked) ==
  LET c == controller.calls[by]
      S == SentBy(by, "registry")
  IN /\ Cardinality(S) = 1
     /\ \A k \in S :
          /\ controller.sent[k] =
               Sent("registry", msg, c.game_id, player_id, by, TRUE)
          /\ \E j \in 1..(k - 1) :
               controller.sent[j] =
                 Sent("game", asked, c.game_id, c.player_id, by, TRUE)

(***************************************************************************)
(* C32: a leave_game that returned Ok has sent the registry exactly one    *)
(* update, after its PlayerLeave was answered: Remove{game_id} when the    *)
(* answer says the game ended, RemoveGamePlayer{game_id, player_id} when   *)
(* it does not; a leave_game whose PlayerLeave failed has sent neither.  A *)
(* cancel_game that returned Ok has sent exactly Remove{game_id}, after    *)
(* its CancelGame succeeded; one whose CancelGame failed has sent the      *)
(* registry nothing.                                                       *)
(***************************************************************************)
C32_OneRegistryUpdate ==
  \A by \in DOMAIN controller.calls :
    LET c == controller.calls[by]
    IN /\ c.kind = "leave_game" /\ c.result = "Ok"
          => IF c.game_ended
             THEN OneUpdateAfter(by, "Remove", 0, "PlayerLeave")
             ELSE OneUpdateAfter(by, "RemoveGamePlayer", c.player_id,
                                 "PlayerLeave")
       /\ c.kind = "cancel_game" /\ c.result = "Ok"
          => OneUpdateAfter(by, "Remove", 0, "CancelGame")
       /\ c.kind \in {"leave_game", "cancel_game"} /\ FailedBeforeRegistry(c)
          => /\ c.result = (IF c.kind = "leave_game" THEN "Err_PlayerLeave"
                            ELSE "Err_CancelGame")
             /\ SentBy(by, "registry") = {}
       /\ c.kind \in {"leave_game", "cancel_game"}
          /\ SentBy(by, "registry") # {}
          => \E j \in SentBy(by, "game") : controller.sent[j].ok

(* One leave ended its game and removed the game, another did not and took *)
(* its player out of the game; both returned Ok.                           *)
C32_Witness ==
  /\ controller.pc = "serving"
  /\ \E a, b \in DOMAIN controller.calls :
       /\ controller.calls[a].kind = "leave_game"
       /\ controller.calls[a].result = "Ok"
       /\ controller.calls[a].game_ended
       /\ \E k \in SentBy(a, "registry") : controller.sent[k].msg = "Remove"
       /\ controller.calls[b].kind = "leave_game"
       /\ controller.calls[b].result = "Ok"
       /\ ~controller.calls[b].game_ended
       /\ \E k \in SentBy(b, "registry") :
            controller.sent[k].msg = "RemoveGamePlayer"

(***************************************************************************)
(* MapSha1 (crates/controller/src/map/mod.rs): the conversion of a map's   *)
(* SHA-1 between the byte vector of the protobuf message and the array of  *)
(* the controller.                                                         *)
(***************************************************************************)
MaxLen == 22           \* longest byte vector given to unpack

SHA1_LEN == 20         \* MapSha1(pub [u8; 20])

(* The byte vectors of length n the model converts: all bytes equal, the   *)
(* bytes 1, 2, .. in order, and all bytes zero but one.                    *)
ByteVecs(n) ==
  {[i \in 1..n |-> b] : b \in {0, 255}}
  \cup {[i \in 1..n |-> i]}
  \cup {[i \in 1..n |-> IF i = j THEN 1 ELSE 0] : j \in 1..n}

Inputs == UNION {ByteVecs(n) : n \in 0..MaxLen}

(* Result<T, ProtoError> *)
Ok(v) == [ok |-> TRUE, v |-> v]

(* unpack without the zeroed array: a short vector is kept as it is. *)
unpack_noPadding(value) ==
  Ok(IF Len(value) >= SHA1_LEN THEN SubSeq(value, 1, SHA1_LEN) ELSE value)

(* <MapSha1 as S2ProtoUnpack<Vec<u8>>>::unpack *)
unpack(value) ==
  LET bytes == [i \in 1..SHA1_LEN |-> 0]
  IN Ok(IF Len(value) >= SHA1_LEN
        THEN [i \in 1..SHA1_LEN |-> value[i]]
        ELSE [i \in 1..SHA1_LEN |->
                IF i <= Len(value) THEN value[i] ELSE bytes[i]])

(* <MapSha1 as S2ProtoPack<Vec<u8>>>::pack: self.0.to_vec() *)
pack(self) == Ok([i \in 1..Len(self) |-> self[i]])

InitMapSha1 ==
  /\ map_sha1 \in [pc : {"value"}, value : Inputs,
                   unpacked : {Ok(<<>>)}, packed : {Ok(<<>>)}]
  /\ controller = NoController
  /\ stream = NoStream
  /\ game = NoGame
  /\ NoLobby

(* MapSha1::unpack(value) *)
Unpack ==
  /\ map_sha1.pc = "value"
  /\ map_sha1' = [map_sha1 EXCEPT !.pc = "unpacked",
                                  !.unpacked = unpack(map_sha1.value)]
  /\ UNCHANGED <<lobbyVars, stream, game, controller>>

(* .pack() of the unpacked value; reached only when unpack returned Ok. *)
Pack ==
  /\ map_sha1.pc = "unpacked"
  /\ map_sha1.unpacked.ok
  /\ map_sha1' = [map_sha1 EXCEPT !.pc = "packed",
                                  !.packed = pack(map_sha1.unpacked.v)]
  /\ UNCHANGED <<lobbyVars, stream, game, controller>>

NextMapSha1 ==
  \/ Unpack
  \/ Pack

SpecMapSha1 == InitMapSha1 /\ [][NextMapSha1]_vars

(* n zero bytes *)
Zeros(n) == [i \in 1..n |-> 0]

(***************************************************************************)
(* C33: MapSha1::unpack returns Ok with exactly 20 bytes for every byte    *)
(* vector: its first 20 bytes when it has 20 or more, the vector followed  *)
(* by zeros when it has fewer; and packing the unpacked value gives the    *)
(* vector back exactly when the vector has 20 bytes.                       *)
(***************************************************************************)
C33_UnpackIsTwentyBytes ==
  LET value == map_sha1.value
      u == map_sha1.unpacked
  IN /\ map_sha1.pc \in {"unpacked", "packed"}
        => /\ u.ok
           /\ Len(u.v) = 20
           /\ IF Len(value) >= 20
              THEN u.v = SubSeq(value, 1, 20)
              ELSE u.v = value \o Zeros(20 - Len(value))
     /\ map_sha1.pc = "packed"
        => /\ map_sha1.packed.ok
           /\ (map_sha1.packed.v = value) <=> (Len(value) = 20)

(* A vector of fewer than 20 bytes, not all zero, was unpacked and packed: *)
(* the result is the vector with zeros after it, and not the vector.       *)
C33_Witness ==
  /\ map_sha1.pc = "packed"
  /\ Len(map_sha1.value) \in 1..19
  /\ \E i \in DOMAIN map_sha1.value : map_sha1.value[i] # 0
  /\ map_sha1.packed.v # map_sha1.value
  /\ Len(map_sha1.packed.v) = 20

====
